---- MODULE Spec2Model ----
(***************************************************************************)
(* A model of atlas_asset_http_client_python: the typed component model    *)
(* (components.py) and the asynchronous command client (http_client.py).   *)
(*                                                                         *)
(* Python values are tagged records: t is the Python type, v the payload.  *)
(* A dict is a function from its keys to values, a list is a sequence, an   *)
(* instance of an AtlasModel dataclass carries its class name and the       *)
(* attributes stored in its __dict__.                                       *)
(*                                                                         *)
(* The client runs on one asyncio event loop: the code between two awaits  *)
(* is one atomic step.  Every action below is one such step of one task.   *)
(***************************************************************************)
EXTENDS Integers, Sequences, FiniteSets, TLC

VARIABLES
    client,       \* self._client: "AsyncClient" or "None"
    httpx_state,  \* state of the owned httpx.AsyncClient: "OPENED" or "CLOSED"
    close_calls,  \* how many times httpx.AsyncClient.aclose was invoked
    base_url,     \* self._base_url
    token,        \* self._token
    pc,           \* per task: where the task is suspended
    call,         \* per task: the operation the task runs or ran last
    scope,        \* the `async with client:` block of the main task
    cancelled,    \* the tasks that were cancelled
    input,        \* the argument a helper function of components.py is applied to
    output        \* what the helper returned or raised

vars == <<client, httpx_state, close_calls, base_url, token, pc, call, scope, cancelled,
          input, output>>

(***************************************************************************)
(* Python values                                                           *)
(***************************************************************************)
PyNone == [t |-> "None"]
PyStr(s) == [t |-> "str", v |-> s]
PyInt(n) == [t |-> "int", v |-> n]
PyFloat(n) == [t |-> "float", v |-> n]
PyBool(b) == [t |-> "bool", v |-> b]
PyList(s) == [t |-> "list", v |-> s]
PyDict(f) == [t |-> "dict", v |-> f]
PyBytes(s) == [t |-> "bytes", v |-> s]
PyModel(c, a) == [t |-> "model", cls |-> c, attrs |-> a]

\* the dict with no keys
EmptyMap == [k \in {} |-> PyNone]

\* a keyword argument that was not passed, a body that was not sent
Absent == [t |-> "absent"]

\* bool(x) of a Python value
Truthy(x) ==
    CASE x.t = "None" -> FALSE
      [] x.t = "bool" -> x.v
      [] x.t \in {"int", "float"} -> x.v # 0
      [] x.t \in {"str", "bytes"} -> x.v # ""
      [] x.t = "list" -> Len(x.v) > 0
      [] x.t = "dict" -> DOMAIN x.v # {}
      [] OTHER -> TRUE

\* d.get(k) of a dict
DictGet(d, k) == IF k \in DOMAIN d.v THEN d.v[k] ELSE PyNone

\* d[k] = x
DictSet(d, k, x) == PyDict([j \in (DOMAIN d.v) \cup {k} |-> IF j = k THEN x ELSE d.v[j]])

(***************************************************************************)
(* components.py: the typed component model                                *)
(***************************************************************************)

\* dataclasses.fields(obj): the declared field names of each model class
Fields(cls) ==
    CASE cls = "TelemetryComponent" ->
            {"latitude", "longitude", "altitude_m", "speed_m_s", "heading_deg"}
      [] cls = "GeometryComponent" -> {"type", "coordinates"}
      [] cls = "TaskCatalogComponent" -> {"supported_tasks"}
      [] cls = "MediaRefItem" -> {"object_id", "role"}
      [] cls = "MilViewComponent" -> {"classification", "last_seen"}
      [] cls = "HealthComponent" -> {"battery_percent"}
      [] cls = "SensorRefItem" ->
            {"sensor_id", "type", "vertical_fov", "horizontal_fov",
             "vertical_orientation", "horizontal_orientation"}
      [] cls = "CommunicationsComponent" -> {"link_state"}
      [] cls = "TaskQueueComponent" -> {"current_task_id", "queued_task_ids"}
      [] cls = "StatusComponent" -> {"value", "last_update"}
      [] cls = "HeartbeatComponent" -> {"last_seen"}
      [] cls = "EntityComponents" ->
            {"telemetry", "geometry", "task_catalog", "media_refs", "mil_view",
             "health", "sensor_refs", "communications", "task_queue", "status",
             "heartbeat"}
      [] cls = "CommandComponent" -> {"type"}
      [] cls = "TaskParametersComponent" -> {"latitude", "longitude", "altitude_m"}
      [] cls = "TaskProgressComponent" -> {"percent", "updated_at", "status_detail"}
      [] cls = "TaskComponents" -> {"command", "parameters", "progress"}
      [] cls = "ObjectReferenceItem" -> {"entity_id", "task_id"}
      [] cls = "ObjectMetadata" ->
            {"bucket", "size_bytes", "usage_hints", "referenced_by", "checksum",
             "expiry_time"}
      [] OTHER -> {}

\* How the strings the code looks into are spelled, as a sequence of lexical
\* pieces; a string that is not listed is one piece of its own.
Spelling ==
    ("" :> <<>>)
    @@ ("custom_" :> <<"custom_">>)
    @@ ("custom_weather" :> <<"custom_", "weather">>)
    @@ ("my_custom_x" :> <<"my_", "custom_", "x">>)
    @@ ("Z" :> <<"Z">>)
    @@ ("2025-01-01" :> <<"2025-01-01">>)
    @@ ("2025-01-01Z" :> <<"2025-01-01", "Z">>)
    @@ ("2025-01-01T00:00:00" :> <<"2025-01-01", "T", "00:00:00">>)
    @@ ("2025-01-01T00:00:00Z" :> <<"2025-01-01", "T", "00:00:00", "Z">>)
    @@ ("2025-01-01t00:00:00Z" :> <<"2025-01-01", "t", "00:00:00", "Z">>)
    @@ ("2025-01-01T00:00:00z" :> <<"2025-01-01", "T", "00:00:00", "z">>)
    @@ ("2025-01-01T00:00:00ZZ" :> <<"2025-01-01", "T", "00:00:00", "Z", "Z">>)
    @@ ("2025-01-01T00:00:00.5Z" :> <<"2025-01-01", "T", "00:00:00", ".5", "Z">>)
    @@ ("2025-01-01T00:00:00+00:00" :> <<"2025-01-01", "T", "00:00:00", "+00:00">>)
    @@ ("2025-01-01T10:05Z" :> <<"2025-01-01", "T", "10:05", "Z">>)
    @@ ("2025-13-01T00:00:00Z" :> <<"2025-13-01", "T", "00:00:00", "Z">>)

Spell(s) == IF s \in DOMAIN Spelling THEN Spelling[s] ELSE <<s>>

\* str.startswith and str.endswith, on spellings
startswith(s, prefix) == Len(s) >= Len(prefix) /\ SubSeq(s, 1, Len(prefix)) = prefix
endswith(s, suffix) ==
    Len(s) >= Len(suffix) /\ SubSeq(s, Len(s) - Len(suffix) + 1, Len(s)) = suffix

\* the attribute names of the model that carry the reserved extension prefix
CustomKeys == {"custom_", "custom_weather"}

\* "custom_" in k: the prefix looked for anywhere in the key
HasCustomPrefix_anywhere(k) == \E i \in 1..Len(Spell(k)) : Spell(k)[i] = "custom_"

\* k.startswith("custom_")
HasCustomPrefix(k) == startswith(Spell(k), Spell("custom_"))

\* getattr(obj, name): an attribute that __init__ did not set falls back to the
\* class attribute the dataclass keeps for the field's default, None
Getattr(obj, name) == IF name \in DOMAIN obj.attrs THEN obj.attrs[name] ELSE PyNone

\* AtlasModel.model_dump.serialize
RECURSIVE serialize(_)
serialize(obj) ==
    CASE obj.t = "model" ->
            PyDict([k \in Fields(obj.cls) \cup {j \in DOMAIN obj.attrs : HasCustomPrefix(j)}
                        |-> serialize(Getattr(obj, k))])
      [] obj.t = "list" -> PyList([i \in 1..Len(obj.v) |-> serialize(obj.v[i])])
      [] obj.t = "dict" -> PyDict([k \in DOMAIN obj.v |-> serialize(obj.v[k])])
      [] OTHER -> obj

\* _exclude_none
RECURSIVE exclude_none(_)
exclude_none(data) ==
    CASE data.t = "dict" ->
            PyDict([k \in {j \in DOMAIN data.v : data.v[j].t # "None"}
                        |-> exclude_none(data.v[k])])
      [] data.t = "list" -> PyList([i \in 1..Len(data.v) |-> exclude_none(data.v[i])])
      [] OTHER -> data

\* model_dump that ignores exclude_none
model_dump_unfiltered(obj, exclude) == serialize(obj)

\* model_dump that leaves out the extension attributes
model_dump_declared(obj, exclude) ==
    LET data == PyDict([k \in Fields(obj.cls) |-> serialize(Getattr(obj, k))])
    IN  IF exclude THEN exclude_none(data) ELSE data

\* AtlasModel.model_dump(exclude_none=...)
model_dump(obj, exclude) == IF exclude THEN exclude_none(serialize(obj)) ELSE serialize(obj)

\* how a function ends: it returns a value or raises an exception
Return(x) == [kind |-> "return", value |-> x]
Raise(e) == [kind |-> "raise", exc |-> e]

\* an exception of components.py, with what its message says
RaiseMsg(e, m) == [kind |-> "raise", exc |-> e, msg |-> m]

\* a check that passed
Passed == Return(PyNone)

\* the outcome of checks run one after the other: the first exception raised
RECURSIVE FirstRaise(_)
FirstRaise(checks) ==
    IF checks = <<>> THEN Passed
    ELSE IF Head(checks).kind = "raise" THEN Head(checks)
    ELSE FirstRaise(Tail(checks))

\* _check_numeric
check_numeric(value) ==
    IF value.t = "None" THEN Passed
    ELSE IF value.t = "bool" \/ value.t \notin {"int", "float"}
    THEN RaiseMsg("TypeError", "must be a number")
    ELSE Passed

\* datetime.fromisoformat accepts the string: a date, alone or followed by one
\* separator character, a time, and optionally a fraction and a UTC offset.  Any
\* character separates, so "+00:00" right after the date reads as the time 00:00.
IsoDates == {"2025-01-01"}
IsoTimes == {"00:00:00", "10:05"}
IsoOffsets == {"+00:00", "Z"}
fromisoformat(s) ==
    /\ Len(s) >= 1
    /\ s[1] \in IsoDates
    /\ \/ Len(s) = 1
       \/ Len(s) = 2 /\ s[2] = "+00:00"
       \/ /\ Len(s) >= 3
          /\ s[2] \in {"T", "t"}
          /\ s[3] \in IsoTimes
          /\ \/ Len(s) = 3
             \/ Len(s) = 4 /\ s[4] \in {".5"} \cup IsoOffsets
             \/ Len(s) = 5 /\ s[4] = ".5" /\ s[5] \in IsoOffsets

\* value[:-1] + "+00:00" if value.endswith("Z") else value
normalize_z(s) ==
    IF endswith(s, Spell("Z")) THEN SubSeq(s, 1, Len(s) - 1) \o <<"+00:00">> ELSE s

\* _check_timestamp
check_timestamp(value) ==
    IF value.t = "None" THEN Passed
    ELSE IF value.t # "str" THEN RaiseMsg("TypeError", "must be a string")
    ELSE IF fromisoformat(normalize_z(Spell(value.v))) THEN Passed
    ELSE RaiseMsg("ValueError", "must be a valid RFC 3339 timestamp")

\* a <= x <= b, a <= x < b and 0 <= x of __post_init__, on a value that passed
\* _check_numeric
check_range(value, lo, hi, m) ==
    IF value.t # "None" /\ ~(lo <= value.v /\ value.v <= hi)
    THEN RaiseMsg("ValueError", m) ELSE Passed
check_below_inclusive(value, lo, hi, m) ==
    IF value.t # "None" /\ ~(lo <= value.v /\ value.v <= hi)
    THEN RaiseMsg("ValueError", m) ELSE Passed
check_below(value, lo, hi, m) ==
    IF value.t # "None" /\ ~(lo <= value.v /\ value.v < hi)
    THEN RaiseMsg("ValueError", m) ELSE Passed
check_non_negative(value, m) ==
    IF value.t # "None" /\ value.v < 0 THEN RaiseMsg("ValueError", m) ELSE Passed

\* `if self.<field> is None: raise ValueError(...)`
check_non_empty_none_only(value) ==
    IF value.t = "None" THEN RaiseMsg("ValueError", "must be a non-empty string") ELSE Passed

\* `if not self.<field>: raise ValueError(...)`
check_non_empty(value) ==
    IF ~Truthy(value) THEN RaiseMsg("ValueError", "must be a non-empty string") ELSE Passed

\* __post_init__ of each class, on the attributes the generated __init__ has set
post_init(cls, a) ==
    CASE cls = "TelemetryComponent" ->
            LET numeric == FirstRaise(<<check_numeric(a.latitude), check_numeric(a.longitude),
                                        check_numeric(a.altitude_m), check_numeric(a.speed_m_s),
                                        check_numeric(a.heading_deg)>>)
            IN  IF numeric.kind = "raise" THEN numeric
                ELSE FirstRaise(<<check_range(a.latitude, -90, 90, "latitude must be between"),
                                  check_range(a.longitude, -180, 180, "longitude must be between"),
                                  check_non_negative(a.speed_m_s, "speed_m_s must be non-negative"),
                                  check_below(a.heading_deg, 0, 360,
                                              "heading_deg must be between")>>)
      [] cls = "MilViewComponent" -> check_timestamp(a.last_seen)
      [] cls = "HealthComponent" ->
            LET numeric == check_numeric(a.battery_percent)
            IN  IF numeric.kind = "raise" THEN numeric
                ELSE check_range(a.battery_percent, 0, 100, "battery_percent must be between")
      [] cls = "SensorRefItem" ->
            FirstRaise(<<check_numeric(a.vertical_fov), check_numeric(a.horizontal_fov),
                         check_numeric(a.vertical_orientation),
                         check_numeric(a.horizontal_orientation)>>)
      [] cls = "StatusComponent" ->
            LET value == check_non_empty(a.value)
            IN  IF value.kind = "raise" THEN value ELSE check_timestamp(a.last_update)
      [] cls = "HeartbeatComponent" ->
            LET last_seen == check_non_empty(a.last_seen)
            IN  IF last_seen.kind = "raise" THEN last_seen ELSE check_timestamp(a.last_seen)
      [] cls = "CommandComponent" -> check_non_empty(a.type)
      [] cls = "TaskProgressComponent" ->
            LET early == FirstRaise(<<check_numeric(a.percent), check_timestamp(a.updated_at)>>)
            IN  IF early.kind = "raise" THEN early
                ELSE check_range(a.percent, 0, 100, "percent must be between")
      [] OTHER -> Passed

\* the classes that define __init__(self, **kwargs) themselves
OpenTypes == {"EntityComponents", "TaskParametersComponent", "TaskComponents", "ObjectMetadata"}

\* the fields without a default value
Required(cls) ==
    CASE cls = "GeometryComponent" -> {"type", "coordinates"}
      [] cls = "MediaRefItem" -> {"object_id", "role"}
      [] cls = "MilViewComponent" -> {"classification"}
      [] cls = "SensorRefItem" -> {"sensor_id", "type"}
      [] cls = "CommunicationsComponent" -> {"link_state"}
      [] cls = "StatusComponent" -> {"value"}
      [] cls = "HeartbeatComponent" -> {"last_seen"}
      [] cls = "CommandComponent" -> {"type"}
      [] OTHER -> {}

\* the default of a field that has one: None, or field(default_factory=list)
Default(cls, f) ==
    IF <<cls, f>> \in {<<"TaskCatalogComponent", "supported_tasks">>,
                       <<"TaskQueueComponent", "queued_task_ids">>}
    THEN PyList(<<>>) ELSE PyNone

\* __init__(self, **kwargs) of an open type: every key is a known field or
\* carries the prefix, and is set as given; no value is looked at
init_open(cls, kwargs) ==
    IF \A key \in DOMAIN kwargs : key \in Fields(cls) \/ HasCustomPrefix(key)
    THEN Return(PyModel(cls, kwargs))
    ELSE RaiseMsg("ValueError", "Unknown")

\* the __init__ that @dataclass generates, followed by __post_init__
init_dataclass(cls, kwargs) ==
    IF ~(DOMAIN kwargs \subseteq Fields(cls))
    THEN RaiseMsg("TypeError", "unexpected keyword argument")
    ELSE IF ~(Required(cls) \subseteq DOMAIN kwargs)
    THEN RaiseMsg("TypeError", "missing required argument")
    ELSE LET a == [f \in Fields(cls) |-> IF f \in DOMAIN kwargs THEN kwargs[f]
                                         ELSE Default(cls, f)]
             checked == post_init(cls, a)
         IN  IF checked.kind = "raise" THEN checked ELSE Return(PyModel(cls, a))

\* cls(**kwargs)
construct(cls, kwargs) ==
    IF cls \in OpenTypes THEN init_open(cls, kwargs) ELSE init_dataclass(cls, kwargs)

\* components_to_dict that serializes with exclude_none=False
components_to_dict_keeping_none(components) ==
    CASE components.t = "None" -> Return(PyNone)
      [] components.t = "dict" -> Return(components)
      [] components.t = "model" /\ components.cls \in {"EntityComponents", "TaskComponents"} ->
            Return(model_dump(components, FALSE))
      [] OTHER -> Raise("TypeError")

\* components_to_dict
components_to_dict(components) ==
    CASE components.t = "None" -> Return(PyNone)
      [] components.t = "dict" -> Return(components)
      [] components.t = "model" /\ components.cls \in {"EntityComponents", "TaskComponents"} ->
            Return(model_dump(components, TRUE))
      [] OTHER -> Raise("TypeError")

\* object_metadata_to_dict
object_metadata_to_dict(metadata) ==
    CASE metadata.t = "None" -> Return(PyNone)
      [] metadata.t = "model" /\ metadata.cls = "ObjectMetadata" ->
            Return(model_dump(metadata, TRUE))
      [] OTHER -> Raise("TypeError")

(***************************************************************************)
(* http_client.py: the state of one AtlasCommandHttpClient                 *)
(***************************************************************************)

\* the task that runs the `async with client:` block, and a second task that
\* shares the client
Tasks == {"main", "other"}

\* base_url.rstrip("/"), a URL being its text followed by its trailing "/"s
RECURSIVE rstrip(_)
rstrip(url) ==
    IF Len(url) > 0 /\ url[Len(url)] = "/" THEN rstrip(SubSeq(url, 1, Len(url) - 1)) ELSE url

\* the base addresses and tokens a client is constructed with
BaseUrls == {<<"http://atlas.local">>, <<"http://atlas.local", "/">>,
             <<"http://atlas.local", "/", "/">>}
Tokens == {PyNone, PyStr(""), PyStr("secret")}

\* a request handed to the transport, and the transport's answer to it
Pending == [kind |-> "pending"]
TransportError == [kind |-> "error"]
Response(status, content) == [kind |-> "response", status |-> status, content |-> content]

\* the operation a task runs or ran last
NoCall ==
    [op |-> "", args |-> PyDict(EmptyMap), state |-> "none", result |-> Absent, exc |-> "",
     reqs |-> <<>>, client_at_start |-> "", stored |-> Absent, k |-> 0]

NewCall(op, args) ==
    [op |-> op, args |-> PyDict(args), state |-> "running", result |-> Absent, exc |-> "",
     reqs |-> <<>>, client_at_start |-> client, stored |-> Absent, k |-> 0]

Returned(c, x) == [c EXCEPT !.state = "returned", !.result = x]
Raised(c, e) == [c EXCEPT !.state = "raised", !.exc = e]

\* no helper function was applied
NotApplied == [kind |-> "none"]

\* AtlasCommandHttpClient.__init__
Init ==
    /\ client = "AsyncClient"
    /\ httpx_state = "OPENED"
    /\ close_calls = 0
    /\ base_url \in {rstrip(u) : u \in BaseUrls}
    /\ token \in Tokens
    /\ pc = [t \in Tasks |-> "idle"]
    /\ call = [t \in Tasks |-> NoCall]
    /\ scope = [state |-> "body", path |-> "none"]
    /\ cancelled = {}
    /\ input = Absent
    /\ output = NotApplied

\* the _http property without its check
Http_unguarded == Return(client)

\* the _http property
Http == IF client = "None" THEN Raise("ClientIsClosed") ELSE Return(client)

\* _headers
Headers ==
    ("Content-Type" :> <<"application/json">>)
        @@ (IF Truthy(token) THEN "Authorization" :> <<"Bearer ", token.v>> ELSE EmptyMap)

\* _multipart_headers that returns what _headers returns
MultipartHeaders_json == Headers

\* _multipart_headers
MultipartHeaders ==
    IF Truthy(token) THEN "Authorization" :> <<"Bearer ", token.v>> ELSE EmptyMap

\* str(x) inside an f-string path
Fmt(x) == CASE x.t = "str" -> x.v [] x.t = "None" -> "None" [] OTHER -> "<object>"

\* the request _request builds: self._http.request(method, path, headers=..., **kwargs)
JsonRequest(method, path, json, params) ==
    [method |-> method, path |-> path, headers |-> Headers, json |-> json, params |-> params,
     files |-> Absent, data |-> Absent, resp |-> Pending]

\* the request _multipart_request builds: self._http.post(path, headers=..., files=, data=)
MultipartRequest(path, files, data) ==
    [method |-> "POST", path |-> path, headers |-> MultipartHeaders, json |-> Absent,
     params |-> Absent, files |-> files, data |-> data, resp |-> Pending]

\* response.raise_for_status(): a status outside 2xx raises
is_success(status) == 200 <= status /\ status < 300

\* _request without response.raise_for_status()
request_result_unchecked(resp) ==
    IF resp.kind = "error" THEN Raise("TransportError")
    ELSE IF resp.content.t # "absent" THEN Return(resp.content)
    ELSE Return(PyNone)

\* _request, after the transport answered
request_result(resp) ==
    IF resp.kind = "error" THEN Raise("TransportError")
    ELSE IF ~is_success(resp.status) THEN Raise("HTTPStatusError")
    ELSE IF resp.content.t # "absent" THEN Return(resp.content)
    ELSE Return(PyNone)

\* _multipart_request, after the transport answered
multipart_result(resp) ==
    IF resp.kind = "error" THEN Raise("TransportError")
    ELSE IF ~is_success(resp.status) THEN Raise("HTTPStatusError")
    ELSE IF resp.content.t # "absent" THEN Return(resp.content)
    ELSE Return(PyDict(EmptyMap))

\* A handler reaches its await with request r: self._http raises when the client
\* is closed, httpx refuses to send on a closed AsyncClient, and otherwise the
\* request goes to the transport and the task suspends at `where`.
Send(t, c, r, where) ==
    IF Http.kind = "raise" THEN
        /\ call' = [call EXCEPT ![t] = Raised(c, Http.exc)]
        /\ pc' = [pc EXCEPT ![t] = "idle"]
    ELSE IF httpx_state = "CLOSED" THEN
        /\ call' = [call EXCEPT ![t] = Raised(c, "HttpxClosed")]
        /\ pc' = [pc EXCEPT ![t] = "idle"]
    ELSE
        /\ call' = [call EXCEPT ![t] = [c EXCEPT !.reqs = Append(@, r)]]
        /\ pc' = [pc EXCEPT ![t] = where]

\* a task calls an operation when it is not inside one and its caller has taken
\* the outcome of the one before
CanCall(t) == pc[t] = "idle" /\ call[t].state = "none"

\* the synchronous part of a handler, up to its first await: `prep` is what the
\* handler built, a request to send or a local error
Invoke(t, op, args, prep, where) ==
    /\ CanCall(t)
    /\ IF prep.kind = "raise" THEN
           /\ call' = [call EXCEPT ![t] = Raised(NewCall(op, args), prep.exc)]
           /\ pc' = pc
       ELSE Send(t, NewCall(op, args), prep.value, where)
    /\ UNCHANGED <<input, output, client, httpx_state, close_calls, base_url, token, scope, cancelled>>

\* what the transport may answer to a JSON request
JsonResponses ==
    {Response(200, PyDict("ok" :> PyBool(TRUE))), Response(200, Absent),
     Response(404, PyDict("detail" :> PyStr("not found"))), Response(500, Absent),
     TransportError}

\* the last request of a call, answered
Answered(c, resp) == [c EXCEPT !.reqs[Len(c.reqs)].resp = resp]

\* the handlers that await _request and drop its result
ReturnNone == {"delete_entity", "delete_task", "delete_object"}

\* a handler that sends its request once more when the first attempt failed
request_completes_retrying(t) ==
    /\ pc[t] = "request"
    /\ \E resp \in JsonResponses :
          LET c == Answered(call[t], resp)
              r == request_result(resp)
          IN  IF r.kind = "raise" /\ Len(c.reqs) = 1
              THEN /\ call' = [call EXCEPT ![t] =
                                  [c EXCEPT !.reqs = Append(@, [c.reqs[1] EXCEPT !.resp = Pending])]]
                   /\ pc' = pc
              ELSE /\ call' = [call EXCEPT ![t] =
                                  IF r.kind = "raise" THEN Raised(c, r.exc)
                                  ELSE IF c.op \in ReturnNone THEN Returned(c, PyNone)
                                  ELSE Returned(c, r.value)]
                   /\ pc' = [pc EXCEPT ![t] = "idle"]
    /\ UNCHANGED <<input, output, client, httpx_state, close_calls, base_url, token, scope, cancelled>>

\* a handler that drops the connection when its request failed
request_completes_closing_on_failure(t) ==
    /\ pc[t] = "request"
    /\ \E resp \in JsonResponses :
          LET c == Answered(call[t], resp)
              r == request_result(resp)
          IN  /\ call' = [call EXCEPT ![t] =
                              IF r.kind = "raise" THEN Raised(c, r.exc)
                              ELSE IF c.op \in ReturnNone THEN Returned(c, PyNone)
                              ELSE Returned(c, r.value)]
              /\ client' = IF r.kind = "raise" THEN "None" ELSE client
    /\ pc' = [pc EXCEPT ![t] = "idle"]
    /\ UNCHANGED <<input, output, httpx_state, close_calls, base_url, token, scope, cancelled>>

\* a handler that awaits one _request and returns its result
request_completes(t) ==
    /\ pc[t] = "request"
    /\ \E resp \in JsonResponses :
          LET c == Answered(call[t], resp)
              r == request_result(resp)
          IN  call' = [call EXCEPT ![t] =
                          IF r.kind = "raise" THEN Raised(c, r.exc)
                          ELSE IF c.op \in ReturnNone THEN Returned(c, PyNone)
                          ELSE Returned(c, r.value)]
    /\ pc' = [pc EXCEPT ![t] = "idle"]
    /\ UNCHANGED <<input, output, client, httpx_state, close_calls, base_url, token, scope, cancelled>>

(***************************************************************************)
(* Objects: the upload-then-reference workflow of create_object            *)
(***************************************************************************)

\* the longest referenced_by list the model passes to create_object
MaxRefs == 3

EntityIds == {PyStr("asset-1"), PyStr("asset-2")}
TaskIds == {PyStr("task-alpha")}
ObjectIds == {PyStr("obj-123")}

\* the entries of a referenced_by list
RefEntries ==
    {PyDict(("entity_id" :> PyStr("asset-1")) @@ ("task_id" :> PyStr("task-alpha"))),
     PyDict("entity_id" :> PyStr("asset-2"))}

RECURSIVE SeqsUpTo(_, _)
SeqsUpTo(S, n) ==
    IF n = 0 THEN {<<>>}
    ELSE LET shorter == SeqsUpTo(S, n - 1)
         IN  shorter \cup {Append(q, x) : q \in {p \in shorter : Len(p) = n - 1}, x \in S}

ReferencedBy == {PyNone} \cup {PyList(q) : q \in SeqsUpTo(RefEntries, MaxRefs)}

\* the payloads and the form fields create_object is called with
NamedFile == [t |-> "file", name |-> PyStr("clip.mp4")]
Uploads ==
    {[file |-> PyBytes("binary-data"), usage_hint |-> PyStr("mission_video"),
      object_type |-> PyStr("heatmap"), content_type |-> PyStr("application/octet-stream")],
     [file |-> NamedFile, usage_hint |-> PyStr(""), object_type |-> PyNone,
      content_type |-> PyStr("video/mp4")],
     [file |-> PyBytes("binary-data"), usage_hint |-> PyNone, object_type |-> PyNone,
      content_type |-> PyStr("")]}

\* what the transport may answer to the upload
UploadResponses ==
    {Response(201, PyDict("object_id" :> PyStr("obj-123"))),
     Response(201, PyDict("object_id" :> PyStr("obj-999"))),
     Response(201, PyDict("status" :> PyStr("stored"))),
     Response(201, PyDict("object_id" :> PyNone)),
     Response(201, Absent),
     Response(500, Absent),
     TransportError}

\* what the transport may answer to an add-reference request of the workflow
ReferenceResponses ==
    {Response(200, PyDict("object_id" :> PyStr("obj-ref"))),
     Response(404, PyDict("detail" :> PyStr("not found"))),
     TransportError}

\* add_object_reference: the request it hands to _request
add_object_reference_request(object_id, entity_id, task_id) ==
    JsonRequest("POST", <<"objects", Fmt(object_id), "references">>,
                PyDict(("entity_id" :> entity_id) @@ ("task_id" :> task_id)), Absent)

\* create_object up to `await self._multipart_request(...)`
create_object_prepare(a) ==
    IF ~Truthy(a.content_type) THEN Raise("ValueError")
    ELSE LET filename == IF a.file.t = "bytes" THEN PyStr("upload.bin")
                         ELSE IF "name" \in DOMAIN a.file THEN a.file.name
                         ELSE PyStr("upload.bin")
             files == PyDict("file" :> <<filename, a.file, a.content_type>>)
             data0 == PyDict("object_id" :> a.object_id)
             data1 == IF Truthy(a.usage_hint) THEN DictSet(data0, "usage_hint", a.usage_hint)
                      ELSE data0
             data2 == IF Truthy(a.object_type) THEN DictSet(data1, "type", a.object_type)
                      ELSE data1
         IN  Return(MultipartRequest(<<"objects", "upload">>, files, data2))

\* the next step of create_object: attach reference k of the list
Attach(stored, k) == [kind |-> "attach", stored |-> stored, k |-> k]

\* create_object_after_upload without the check of the stored object_id
create_object_after_upload_unchecked(c, resp) ==
    LET r == multipart_result(resp)
    IN  IF r.kind = "raise" THEN r
        ELSE IF Truthy(c.args.v.referenced_by) THEN Attach(r.value, 1)
        ELSE Return(r.value)

\* create_object_after_upload that attaches the references to the object_id
\* argument when the upload failed
create_object_after_upload_ignoring_failure(c, resp) ==
    LET r == multipart_result(resp)
        given == PyDict("object_id" :> c.args.v.object_id)
    IN  IF r.kind = "raise"
        THEN (IF Truthy(c.args.v.referenced_by) THEN Attach(given, 1) ELSE r)
        ELSE LET stored == r.value
                 stored_object_id == DictGet(stored, "object_id")
             IN  IF Truthy(c.args.v.referenced_by) THEN
                     IF ~Truthy(stored_object_id) THEN Raise("WorkflowIntegrity")
                     ELSE Attach(stored, 1)
                 ELSE Return(stored)

\* create_object from the upload's answer to the first reference (or the end)
create_object_after_upload(c, resp) ==
    LET r == multipart_result(resp)
    IN  IF r.kind = "raise" THEN r
        ELSE LET stored == r.value
                 stored_object_id == DictGet(stored, "object_id")
             IN  IF Truthy(c.args.v.referenced_by) THEN
                     IF ~Truthy(stored_object_id) THEN Raise("WorkflowIntegrity")
                     ELSE Attach(stored, 1)
                 ELSE Return(stored)

\* create_object_after_reference that swallows a failed reference and goes on
create_object_after_reference_suppressing(c, resp) ==
    IF c.k < Len(c.args.v.referenced_by.v) THEN Attach(c.stored, c.k + 1) ELSE Return(c.stored)

\* create_object_after_reference that returns what the last reference call returned
create_object_after_reference_returning_last(c, resp) ==
    LET r == request_result(resp)
    IN  IF r.kind = "raise" THEN r
        ELSE IF c.k < Len(c.args.v.referenced_by.v) THEN Attach(c.stored, c.k + 1)
        ELSE Return(r.value)

\* create_object from the answer to reference k to the next reference (or the end)
create_object_after_reference(c, resp) ==
    LET r == request_result(resp)
    IN  IF r.kind = "raise" THEN r
        ELSE IF c.k < Len(c.args.v.referenced_by.v) THEN Attach(c.stored, c.k + 1)
        ELSE Return(c.stored)

\* reference_request that reads the first entry of the list on every iteration
reference_request_first(c, stored, k) ==
    LET reference == c.args.v.referenced_by.v[1]
    IN  add_object_reference_request(DictGet(stored, "object_id"),
                                     DictGet(reference, "entity_id"),
                                     DictGet(reference, "task_id"))

\* reference_request that targets the object_id argument of create_object
reference_request_argument_id(c, stored, k) ==
    LET reference == c.args.v.referenced_by.v[k]
    IN  add_object_reference_request(c.args.v.object_id,
                                     DictGet(reference, "entity_id"),
                                     DictGet(reference, "task_id"))

\* the add_object_reference call of the loop body, for reference k
reference_request(c, stored, k) ==
    LET reference == c.args.v.referenced_by.v[k]
    IN  add_object_reference_request(DictGet(stored, "object_id"),
                                     DictGet(reference, "entity_id"),
                                     DictGet(reference, "task_id"))

\* one step of the workflow after an answer: fail, return, or send a reference
Continue(t, c, d) ==
    CASE d.kind = "raise" ->
            /\ call' = [call EXCEPT ![t] = Raised(c, d.exc)]
            /\ pc' = [pc EXCEPT ![t] = "idle"]
      [] d.kind = "return" ->
            /\ call' = [call EXCEPT ![t] = Returned(c, d.value)]
            /\ pc' = [pc EXCEPT ![t] = "idle"]
      [] d.kind = "attach" ->
            Send(t, [c EXCEPT !.stored = d.stored, !.k = d.k],
                 reference_request(c, d.stored, d.k), "reference")

create_object(t) ==
    \E u \in Uploads, oid \in ObjectIds, refs \in ReferencedBy :
        LET a == [file |-> u.file, object_id |-> oid, usage_hint |-> u.usage_hint,
                  referenced_by |-> refs, content_type |-> u.content_type,
                  object_type |-> u.object_type]
        IN  Invoke(t, "create_object", a, create_object_prepare(a), "upload")

upload_completes(t) ==
    /\ pc[t] = "upload"
    /\ \E resp \in UploadResponses :
          LET c == Answered(call[t], resp)
          IN  Continue(t, c, create_object_after_upload(c, resp))
    /\ UNCHANGED <<input, output, client, httpx_state, close_calls, base_url, token, scope, cancelled>>

reference_completes(t) ==
    /\ pc[t] = "reference"
    /\ \E resp \in ReferenceResponses :
          LET c == Answered(call[t], resp)
          IN  Continue(t, c, create_object_after_reference(c, resp))
    /\ UNCHANGED <<input, output, client, httpx_state, close_calls, base_url, token, scope, cancelled>>

add_object_reference(t) ==
    \E oid \in ObjectIds, e \in {PyNone} \cup EntityIds, k \in {PyNone} \cup TaskIds :
        Invoke(t, "add_object_reference", [object_id |-> oid, entity_id |-> e, task_id |-> k],
               Return(add_object_reference_request(oid, e, k)), "request")

(***************************************************************************)
(* Closing: aclose, the async with block, cancellation                     *)
(***************************************************************************)

\* aclose up to `await self._client.aclose()`: httpx marks its client closed
\* before it awaits the transport
aclose_begins ==
    IF client # "None"
    THEN /\ httpx_state' = "CLOSED"
         /\ close_calls' = close_calls + 1
    ELSE UNCHANGED <<httpx_state, close_calls>>

aclose(t) ==
    /\ CanCall(t)
    /\ aclose_begins
    /\ IF client # "None"
       THEN /\ call' = [call EXCEPT ![t] = NewCall("aclose", EmptyMap)]
            /\ pc' = [pc EXCEPT ![t] = "closing"]
       ELSE /\ call' = [call EXCEPT ![t] = Returned(NewCall("aclose", EmptyMap), PyNone)]
            /\ pc' = pc
    /\ UNCHANGED <<input, output, client, base_url, token, scope, cancelled>>

\* aclose after the await: self._client = None
aclose_completes(t) ==
    /\ pc[t] = "closing"
    /\ client' = "None"
    /\ call' = [call EXCEPT ![t] = Returned(@, PyNone)]
    /\ pc' = [pc EXCEPT ![t] = "idle"]
    /\ UNCHANGED <<input, output, httpx_state, close_calls, base_url, token, scope, cancelled>>

\* the block is left: normally, or by the exception the last operation raised
ExitPath(c) ==
    IF c.state = "raised" THEN (IF c.exc = "CancelledError" THEN "cancel" ELSE "error")
    ELSE "normal"

\* __aexit__: await self.aclose()
aexit(t) ==
    /\ t = "main"
    /\ pc[t] = "idle"
    /\ scope.state = "body"
    /\ aclose_begins
    /\ IF client # "None"
       THEN /\ scope' = [state |-> "exiting", path |-> ExitPath(call[t])]
            /\ pc' = [pc EXCEPT ![t] = "exiting"]
       ELSE /\ scope' = [state |-> "exited", path |-> ExitPath(call[t])]
            /\ pc' = [pc EXCEPT ![t] = IF ExitPath(call[t]) = "cancel" THEN "done" ELSE "idle"]
    /\ UNCHANGED <<input, output, client, base_url, token, call, cancelled>>

\* __aexit__ after aclose's await: self._client = None, and the block is left
aexit_completes(t) ==
    /\ pc[t] = "exiting"
    /\ client' = "None"
    /\ scope' = [scope EXCEPT !.state = "exited"]
    /\ pc' = [pc EXCEPT ![t] = IF scope.path = "cancel" THEN "done" ELSE "idle"]
    /\ UNCHANGED <<input, output, httpx_state, close_calls, base_url, token, call, cancelled>>

\* The caller takes what the operation returned, or catches what it raised, and
\* goes on.  A CancelledError is not caught: it leaves the block.
resume(t) ==
    /\ pc[t] = "idle"
    /\ call[t].state \in {"returned", "raised"}
    /\ call[t].exc # "CancelledError"
    /\ call' = [call EXCEPT ![t] = NoCall]
    /\ UNCHANGED <<input, output, client, httpx_state, close_calls, base_url, token, pc, scope, cancelled>>

\* Task.cancel(): CancelledError is raised at the await the task is suspended
\* in; nothing after that await runs
cancel(t) ==
    /\ pc[t] \notin {"idle", "done"}
    /\ t \notin cancelled
    /\ cancelled' = cancelled \cup {t}
    /\ IF pc[t] = "exiting"
       THEN /\ scope' = [state |-> "exited", path |-> "cancel"]
            /\ call' = call
            /\ pc' = [pc EXCEPT ![t] = "done"]
       ELSE /\ scope' = scope
            /\ call' = [call EXCEPT ![t] = Raised(@, "CancelledError")]
            /\ pc' = [pc EXCEPT ![t] = IF t = "main" /\ scope.state = "body" THEN "idle" ELSE "done"]
    /\ UNCHANGED <<input, output, client, httpx_state, close_calls, base_url, token>>

(***************************************************************************)
(* The operations that build one request and await _request                *)
(***************************************************************************)

\* a handler with nothing to validate: it builds the request and awaits it
Simple(t, op, args, method, path, json, params) ==
    Invoke(t, op, args, Return(JsonRequest(method, path, json, params)), "request")

\* the arguments the model calls the operations with
Paging == {[limit |-> PyInt(100), offset |-> PyInt(0)], [limit |-> PyInt(5), offset |-> PyInt(10)]}
Statuses == {PyNone, PyStr(""), PyStr("pending")}
Subtypes == {PyNone, PyStr("drone")}
Extras == {PyNone, PyDict("note" :> PyStr("go"))}

Telemetry4175 ==
    PyModel("TelemetryComponent",
            [latitude |-> PyFloat(41), longitude |-> PyFloat(-75), altitude_m |-> PyNone,
             speed_m_s |-> PyNone, heading_deg |-> PyFloat(0)])
TypedEntityComponents ==
    PyModel("EntityComponents",
            ("telemetry" :> Telemetry4175)
                @@ ("health" :> PyModel("HealthComponent", [battery_percent |-> PyInt(85)])))
TypedTaskComponents ==
    PyModel("TaskComponents",
            "parameters" :> PyModel("TaskParametersComponent",
                                    ("latitude" :> PyFloat(40)) @@ ("altitude_m" :> PyInt(120))))
ExtendedEntityComponents ==
    PyModel("EntityComponents",
            ("telemetry" :> Telemetry4175)
                @@ ("custom_weather" :> PyDict(("wind" :> PyInt(0)) @@ ("gust" :> PyNone))))
RawComponents == PyDict("telemetry" :> PyDict("latitude" :> PyFloat(41)))
ComponentInputs ==
    {PyNone, TypedEntityComponents, TypedTaskComponents, ExtendedEntityComponents, RawComponents,
     Telemetry4175, PyStr("telemetry")}

\* Service
get_root(t) == Simple(t, "get_root", EmptyMap, "GET", <<>>, Absent, Absent)
get_health(t) == Simple(t, "get_health", EmptyMap, "GET", <<"health">>, Absent, Absent)
get_readiness(t) == Simple(t, "get_readiness", EmptyMap, "GET", <<"readiness">>, Absent, Absent)

\* Entities
list_entities(t) ==
    \E p \in Paging :
        Simple(t, "list_entities", p, "GET", <<"entities">>, Absent,
               PyDict(("limit" :> p.limit) @@ ("offset" :> p.offset)))

get_entity(t) ==
    \E id \in EntityIds :
        Simple(t, "get_entity", [entity_id |-> id], "GET", <<"entities", Fmt(id)>>, Absent, Absent)

get_entity_by_alias(t) ==
    \E alias \in {PyStr("demo")} :
        Simple(t, "get_entity_by_alias", [alias |-> alias], "GET",
               <<"entities", "alias", Fmt(alias)>>, Absent, Absent)

\* create_entity up to its await
create_entity_prepare(a) ==
    LET d == components_to_dict(a.components)
    IN  IF d.kind = "raise" THEN d
        ELSE Return(JsonRequest("POST", <<"entities">>,
                                PyDict([entity_id |-> a.entity_id, entity_type |-> a.entity_type,
                                        alias |-> a.alias, subtype |-> a.subtype,
                                        components |-> d.value]),
                                Absent))

create_entity(t) ==
    \E id \in EntityIds, comps \in ComponentInputs :
        LET a == [entity_id |-> id, entity_type |-> PyStr("asset"), alias |-> PyStr("demo"),
                  subtype |-> PyStr("drone"), components |-> comps]
        IN  Invoke(t, "create_entity", a, create_entity_prepare(a), "request")

\* update_entity_prepare without the check that something is to be updated
update_entity_prepare_unvalidated(a) ==
    LET d == IF a.components.t # "None" THEN components_to_dict(a.components) ELSE Return(Absent)
    IN  IF d.kind = "raise" THEN d
        ELSE LET p0 == PyDict(EmptyMap)
                 p1 == IF a.components.t # "None" THEN DictSet(p0, "components", d.value) ELSE p0
                 p2 == IF a.subtype.t # "None" THEN DictSet(p1, "subtype", a.subtype) ELSE p1
             IN  Return(JsonRequest("PATCH", <<"entities", Fmt(a.entity_id)>>, p2, Absent))

\* update_entity up to its await
update_entity_prepare(a) ==
    IF a.components.t = "None" /\ a.subtype.t = "None" THEN Raise("ValueError")
    ELSE LET d == IF a.components.t # "None" THEN components_to_dict(a.components)
                  ELSE Return(Absent)
         IN  IF d.kind = "raise" THEN d
             ELSE LET p0 == PyDict(EmptyMap)
                      p1 == IF a.components.t # "None" THEN DictSet(p0, "components", d.value)
                            ELSE p0
                      p2 == IF a.subtype.t # "None" THEN DictSet(p1, "subtype", a.subtype)
                            ELSE p1
                  IN  Return(JsonRequest("PATCH", <<"entities", Fmt(a.entity_id)>>, p2, Absent))

update_entity(t) ==
    \E id \in EntityIds, comps \in ComponentInputs, st \in Subtypes :
        LET a == [entity_id |-> id, components |-> comps, subtype |-> st]
        IN  Invoke(t, "update_entity", a, update_entity_prepare(a), "request")

delete_entity(t) ==
    \E id \in EntityIds :
        Simple(t, "delete_entity", [entity_id |-> id], "DELETE", <<"entities", Fmt(id)>>,
               Absent, Absent)

\* payload[k] = a[k] for the keys of ks whose argument is not None
RECURSIVE SetGiven(_, _, _)
SetGiven(payload, a, ks) ==
    IF ks = <<>> THEN payload
    ELSE SetGiven(IF a[Head(ks)].t # "None" THEN DictSet(payload, Head(ks), a[Head(ks)])
                  ELSE payload,
                  a, Tail(ks))

\* payload[k] = a[k] for the keys of ks whose argument is truthy
RECURSIVE SetTruthy(_, _, _)
SetTruthy(payload, a, ks) ==
    IF ks = <<>> THEN payload
    ELSE SetTruthy(IF Truthy(a[Head(ks)]) THEN DictSet(payload, Head(ks), a[Head(ks)])
                   ELSE payload,
                   a, Tail(ks))

TelemetryKeys == <<"latitude", "longitude", "altitude_m", "speed_m_s", "heading_deg">>

\* the telemetry arguments of checkin_entity and update_entity_telemetry
TelemetryArgs ==
    {[latitude |-> PyNone, longitude |-> PyNone, altitude_m |-> PyNone, speed_m_s |-> PyNone,
      heading_deg |-> PyNone],
     [latitude |-> PyFloat(1), longitude |-> PyFloat(2), altitude_m |-> PyNone,
      speed_m_s |-> PyNone, heading_deg |-> PyNone],
     [latitude |-> PyFloat(0), longitude |-> PyFloat(0), altitude_m |-> PyFloat(120),
      speed_m_s |-> PyFloat(0), heading_deg |-> PyFloat(359)],
     [latitude |-> PyFloat(91), longitude |-> PyNone, altitude_m |-> PyNone,
      speed_m_s |-> PyNone, heading_deg |-> PyNone]}

\* the query arguments of checkin_entity
CheckinQueries ==
    {[status |-> PyNone, status_filter |-> PyStr("pending,acknowledged"), limit |-> PyInt(10),
      since |-> PyNone, fields |-> PyNone],
     [status |-> PyStr("busy"), status_filter |-> PyStr("pending"), limit |-> PyInt(5),
      since |-> PyStr("2025-01-01T00:00:00Z"), fields |-> PyStr("minimal")],
     [status |-> PyStr(""), status_filter |-> PyStr("pending"), limit |-> PyInt(0),
      since |-> PyStr(""), fields |-> PyNone]}

\* checkin_entity that tests its arguments for truth, not for None
checkin_entity_prepare_truthy(a) ==
    LET payload == SetTruthy(SetTruthy(PyDict(EmptyMap), a, TelemetryKeys), a, <<"status">>)
        params == SetTruthy(PyDict(("status_filter" :> a.status_filter) @@ ("limit" :> a.limit)),
                            a, <<"since", "fields">>)
    IN  Return(JsonRequest("POST", <<"entities", Fmt(a.entity_id), "checkin">>, payload, params))

\* checkin_entity up to its await
checkin_entity_prepare(a) ==
    LET payload == SetGiven(SetGiven(PyDict(EmptyMap), a, TelemetryKeys), a, <<"status">>)
        params == SetGiven(PyDict(("status_filter" :> a.status_filter) @@ ("limit" :> a.limit)),
                           a, <<"since", "fields">>)
    IN  Return(JsonRequest("POST", <<"entities", Fmt(a.entity_id), "checkin">>, payload, params))

checkin_entity(t) ==
    \E id \in EntityIds, tm \in TelemetryArgs, q \in CheckinQueries :
        LET a == ("entity_id" :> id) @@ tm @@ q
        IN  Invoke(t, "checkin_entity", a, checkin_entity_prepare(a), "request")

update_entity_telemetry(t) ==
    \E id \in EntityIds, tm \in TelemetryArgs :
        LET a == ("entity_id" :> id) @@ tm
        IN  Simple(t, "update_entity_telemetry", a, "PATCH",
                   <<"entities", Fmt(id), "telemetry">>,
                   SetGiven(PyDict(EmptyMap), a, TelemetryKeys), Absent)

\* Tasks
TaskPaging == {[limit |-> PyInt(25), offset |-> PyInt(0)]}

\* the optional arguments of create_task and update_task besides components
TaskExtras ==
    {[status |-> PyNone, entity_id |-> PyNone, extra |-> PyNone],
     [status |-> PyStr("pending"), entity_id |-> PyStr("asset-1"),
      extra |-> PyDict("note" :> PyStr("go"))]}

list_tasks(t) ==
    \E st \in Statuses, p \in TaskPaging :
        LET a == ("status" :> st) @@ p
        IN  Simple(t, "list_tasks", a, "GET", <<"tasks">>, Absent,
                   SetTruthy(PyDict(("limit" :> p.limit) @@ ("offset" :> p.offset)), a,
                             <<"status">>))

get_task(t) ==
    \E id \in TaskIds :
        Simple(t, "get_task", [task_id |-> id], "GET", <<"tasks", Fmt(id)>>, Absent, Absent)

\* payload["components"] = components_to_dict(components) when components is given
WithComponents(payload, components) ==
    IF components.t = "None" THEN Return(payload)
    ELSE LET d == components_to_dict(components)
         IN  IF d.kind = "raise" THEN d ELSE Return(DictSet(payload, "components", d.value))

\* create_task up to its await
create_task_prepare(a) ==
    LET p0 == PyDict(("task_id" :> a.task_id) @@ ("status" :> a.status))
        p1 == WithComponents(SetGiven(p0, a, <<"entity_id">>), a.components)
    IN  IF p1.kind = "raise" THEN p1
        ELSE Return(JsonRequest("POST", <<"tasks">>, SetGiven(p1.value, a, <<"extra">>), Absent))

create_task(t) ==
    \E id \in TaskIds, x \in TaskExtras, comps \in ComponentInputs :
        LET a == [task_id |-> id, status |-> PyStr("pending"), entity_id |-> x.entity_id,
                  components |-> comps, extra |-> x.extra]
        IN  Invoke(t, "create_task", a, create_task_prepare(a), "request")

\* update_task up to its await
update_task_prepare(a) ==
    LET p1 == WithComponents(SetGiven(PyDict(EmptyMap), a, <<"status", "entity_id">>),
                             a.components)
    IN  IF p1.kind = "raise" THEN p1
        ELSE Return(JsonRequest("PATCH", <<"tasks", Fmt(a.task_id)>>,
                                SetGiven(p1.value, a, <<"extra">>), Absent))

update_task(t) ==
    \E id \in TaskIds, x \in TaskExtras, comps \in ComponentInputs :
        LET a == [task_id |-> id, status |-> x.status, entity_id |-> x.entity_id,
                  components |-> comps, extra |-> x.extra]
        IN  Invoke(t, "update_task", a, update_task_prepare(a), "request")

delete_task(t) ==
    \E id \in TaskIds :
        Simple(t, "delete_task", [task_id |-> id], "DELETE", <<"tasks", Fmt(id)>>, Absent, Absent)

get_tasks_by_entity(t) ==
    \E id \in EntityIds, st \in Statuses, p \in TaskPaging :
        LET a == ("entity_id" :> id) @@ ("status" :> st) @@ p
        IN  Simple(t, "get_tasks_by_entity", a, "GET", <<"entities", Fmt(id), "tasks">>, Absent,
                   SetTruthy(PyDict(("limit" :> p.limit) @@ ("offset" :> p.offset)), a,
                             <<"status">>))

acknowledge_task(t) ==
    \E id \in TaskIds :
        Simple(t, "acknowledge_task", [task_id |-> id], "POST",
               <<"tasks", Fmt(id), "acknowledge">>, PyDict(EmptyMap), Absent)

\* start_task awaits acknowledge_task
start_task(t) ==
    \E id \in TaskIds :
        Simple(t, "start_task", [task_id |-> id], "POST",
               <<"tasks", Fmt(id), "acknowledge">>, PyDict(EmptyMap), Absent)

complete_task(t) ==
    \E id \in TaskIds, res \in {PyNone, PyDict("done" :> PyBool(TRUE)), PyDict(EmptyMap)} :
        LET a == [task_id |-> id, result |-> res]
        IN  Simple(t, "complete_task", a, "POST", <<"tasks", Fmt(id), "complete">>,
                   SetGiven(PyDict(EmptyMap), a, <<"result">>), Absent)

transition_task_status(t) ==
    \E id \in TaskIds, v \in BOOLEAN, x \in Extras :
        LET a == [task_id |-> id, status |-> PyStr("in_progress"), validate |-> PyBool(v),
                  extra |-> x]
        IN  Simple(t, "transition_task_status", a, "POST", <<"tasks", Fmt(id), "status">>,
                   SetGiven(PyDict(("status" :> a.status) @@ ("validate" :> a.validate)), a,
                            <<"extra">>),
                   Absent)

fail_task(t) ==
    \E id \in TaskIds, m \in {PyNone, PyStr("boom")}, d \in {PyNone, PyDict("code" :> PyInt(7))} :
        Simple(t, "fail_task", [task_id |-> id, error_message |-> m, error_details |-> d],
               "POST", <<"tasks", Fmt(id), "fail">>,
               PyDict(("error_message" :> m) @@ ("error_details" :> d)), Absent)

\* Objects
\* a content-length header: its text, whether str.isdigit() holds, and int() of it
ContentLengths ==
    {Absent, [t |-> "header", text |-> "7", isdigit |-> TRUE, int |-> 7],
     [t |-> "header", text |-> "-7", isdigit |-> FALSE, int |-> -7],
     [t |-> "header", text |-> "", isdigit |-> FALSE, int |-> 0]}
ContentTypeHeaders == {Absent, [t |-> "header", text |-> "video/mp4"]}

\* what the transport may answer to a download or a view
DownloadResponses ==
    {[kind |-> "response", status |-> 200, content |-> PyBytes("payload"), content_type |-> ct,
      content_length |-> cl] : ct \in ContentTypeHeaders, cl \in ContentLengths}
        \cup {[kind |-> "response", status |-> 404, content |-> PyBytes(""),
               content_type |-> Absent, content_length |-> Absent],
              TransportError}

\* response.headers.get(name)
HeaderGet(h) == IF h.t = "absent" THEN PyNone ELSE PyStr(h.text)

\* download_object and view_object, after the transport answered
download_result(resp) ==
    IF resp.kind = "error" THEN Raise("TransportError")
    ELSE IF ~is_success(resp.status) THEN Raise("HTTPStatusError")
    ELSE LET h == resp.content_length
             content_length == IF h.t # "absent" /\ h.text # "" /\ h.isdigit
                               THEN PyInt(h.int) ELSE PyNone
         IN  Return(<<resp.content, HeaderGet(resp.content_type), content_length>>)

\* the request of download_object and view_object: self._http.get(path, headers=...)
GetRequest(path) == JsonRequest("GET", path, Absent, Absent)

download_object(t) ==
    \E id \in ObjectIds :
        Invoke(t, "download_object", [object_id |-> id],
               Return(GetRequest(<<"objects", Fmt(id), "download">>)), "download")

view_object(t) ==
    \E id \in ObjectIds :
        Invoke(t, "view_object", [object_id |-> id],
               Return(GetRequest(<<"objects", Fmt(id), "view">>)), "download")

download_completes(t) ==
    /\ pc[t] = "download"
    /\ \E resp \in DownloadResponses :
          LET c == Answered(call[t], resp)
              r == download_result(resp)
          IN  call' = [call EXCEPT ![t] =
                          IF r.kind = "raise" THEN Raised(c, r.exc) ELSE Returned(c, r.value)]
    /\ pc' = [pc EXCEPT ![t] = "idle"]
    /\ UNCHANGED <<input, output, client, httpx_state, close_calls, base_url, token, scope, cancelled>>

ObjectFilters ==
    {[content_type |-> PyNone, type |-> PyNone], [content_type |-> PyStr("video/mp4"), type |-> PyStr("")],
     [content_type |-> PyStr(""), type |-> PyStr("heatmap")]}
ObjectPaging == {[limit |-> PyInt(50), offset |-> PyInt(0)]}

list_objects(t) ==
    \E f \in ObjectFilters, p \in ObjectPaging :
        LET a == f @@ p
        IN  Simple(t, "list_objects", a, "GET", <<"objects">>, Absent,
                   SetTruthy(PyDict(("limit" :> p.limit) @@ ("offset" :> p.offset)), a,
                             <<"content_type", "type">>))

get_object(t) ==
    \E id \in ObjectIds :
        Simple(t, "get_object", [object_id |-> id], "GET", <<"objects", Fmt(id)>>, Absent, Absent)

UsageHints == {PyNone, PyList(<<>>), PyList(<<PyStr("mission_video")>>)}
ReferenceLists == {PyNone, PyList(<<>>), PyList(<<PyDict("entity_id" :> PyStr("asset-1"))>>)}

\* the keyword arguments of create_object_metadata that are optional
MetadataArgs ==
    {[path |-> PyNone, bucket |-> PyNone, size_bytes |-> PyNone, content_type |-> PyNone,
      object_type |-> PyNone, usage_hints |-> PyNone, referenced_by |-> PyNone, extra |-> PyNone],
     [path |-> PyStr("a/b"), bucket |-> PyStr(""), size_bytes |-> PyInt(0),
      content_type |-> PyStr("video/mp4"), object_type |-> PyStr("heatmap"),
      usage_hints |-> PyList(<<>>), referenced_by |-> PyList(<<>>),
      extra |-> PyDict(EmptyMap)]}

\* create_object_metadata up to its await: object_type is sent under "type"
create_object_metadata_prepare(a) ==
    LET p0 == SetGiven(PyDict("object_id" :> a.object_id), a,
                       <<"path", "bucket", "size_bytes", "content_type">>)
        p1 == IF a.object_type.t # "None" THEN DictSet(p0, "type", a.object_type) ELSE p0
    IN  Return(JsonRequest("POST", <<"objects">>,
                           SetGiven(p1, a, <<"usage_hints", "referenced_by", "extra">>), Absent))

create_object_metadata(t) ==
    \E id \in ObjectIds, m \in MetadataArgs :
        LET a == ("object_id" :> id) @@ m
        IN  Invoke(t, "create_object_metadata", a, create_object_metadata_prepare(a), "request")

\* update_object_prepare that takes an empty list for a field that was not given
update_object_prepare_truthy(a) ==
    LET payload == SetTruthy(PyDict(EmptyMap), a, <<"usage_hints", "referenced_by">>)
    IN  IF ~Truthy(payload) THEN Raise("ValueError")
        ELSE Return(JsonRequest("PATCH", <<"objects", Fmt(a.object_id)>>, payload, Absent))

\* update_object up to its await
update_object_prepare(a) ==
    LET payload == SetGiven(PyDict(EmptyMap), a, <<"usage_hints", "referenced_by">>)
    IN  IF ~Truthy(payload) THEN Raise("ValueError")
        ELSE Return(JsonRequest("PATCH", <<"objects", Fmt(a.object_id)>>, payload, Absent))

update_object(t) ==
    \E id \in ObjectIds, h \in UsageHints, r \in ReferenceLists :
        LET a == [object_id |-> id, usage_hints |-> h, referenced_by |-> r]
        IN  Invoke(t, "update_object", a, update_object_prepare(a), "request")

delete_object(t) ==
    \E id \in ObjectIds :
        Simple(t, "delete_object", [object_id |-> id], "DELETE", <<"objects", Fmt(id)>>,
               Absent, Absent)

get_objects_by_entity(t) ==
    \E id \in EntityIds, p \in ObjectPaging :
        Simple(t, "get_objects_by_entity", ("entity_id" :> id) @@ p, "GET",
               <<"entities", Fmt(id), "objects">>, Absent,
               PyDict(("limit" :> p.limit) @@ ("offset" :> p.offset)))

get_objects_by_task(t) ==
    \E id \in TaskIds, p \in ObjectPaging :
        Simple(t, "get_objects_by_task", ("task_id" :> id) @@ p, "GET",
               <<"tasks", Fmt(id), "objects">>, Absent,
               PyDict(("limit" :> p.limit) @@ ("offset" :> p.offset)))

remove_object_reference(t) ==
    \E oid \in ObjectIds, e \in {PyNone} \cup EntityIds, k \in {PyNone} \cup TaskIds :
        Simple(t, "remove_object_reference", [object_id |-> oid, entity_id |-> e, task_id |-> k],
               "DELETE", <<"objects", Fmt(oid), "references">>,
               PyDict(("entity_id" :> e) @@ ("task_id" :> k)), Absent)

find_orphaned_objects(t) ==
    \E p \in Paging :
        Simple(t, "find_orphaned_objects", p, "GET", <<"objects", "orphaned">>, Absent,
               PyDict(("limit" :> p.limit) @@ ("offset" :> p.offset)))

get_object_references(t) ==
    \E id \in ObjectIds :
        Simple(t, "get_object_references", [object_id |-> id], "GET",
               <<"objects", Fmt(id), "references", "info">>, Absent, Absent)

validate_object_references(t) ==
    \E id \in ObjectIds :
        Simple(t, "validate_object_references", [object_id |-> id], "GET",
               <<"objects", Fmt(id), "references", "validate">>, Absent, Absent)

cleanup_object_references(t) ==
    \E id \in ObjectIds :
        Simple(t, "cleanup_object_references", [object_id |-> id], "POST",
               <<"objects", Fmt(id), "references", "cleanup">>, Absent, Absent)

\* Queries
get_changed_since(t) ==
    \E since \in {PyStr("2025-01-01T00:00:00+00:00")}, lim \in {PyNone, PyInt(10)} :
        LET a == [since |-> since, limit_per_type |-> lim]
        IN  Simple(t, "get_changed_since", a, "GET", <<"queries", "changed-since">>, Absent,
                   SetGiven(PyDict("since" :> since), a, <<"limit_per_type">>))

\* get_full_dataset passes params=params or None
get_full_dataset(t) ==
    \E e \in {PyNone, PyInt(0)}, k \in {PyNone, PyInt(5)}, o \in {PyNone} :
        LET a == [entity_limit |-> e, task_limit |-> k, object_limit |-> o]
            params == SetGiven(PyDict(EmptyMap), a, <<"entity_limit", "task_limit", "object_limit">>)
        IN  Simple(t, "get_full_dataset", a, "GET", <<"queries", "full">>, Absent,
                   IF Truthy(params) THEN params ELSE PyNone)

(***************************************************************************)
(* The client as a state machine                                           *)
(***************************************************************************)

\* the task that calls the operations; the other task closes the client
Callers == {"main"}

Next ==
    \/ \E t \in Callers : get_root(t)
    \/ \E t \in Callers : get_health(t)
    \/ \E t \in Callers : get_readiness(t)
    \/ \E t \in Callers : list_entities(t)
    \/ \E t \in Callers : get_entity(t)
    \/ \E t \in Callers : get_entity_by_alias(t)
    \/ \E t \in Callers : create_entity(t)
    \/ \E t \in Callers : update_entity(t)
    \/ \E t \in Callers : delete_entity(t)
    \/ \E t \in Callers : checkin_entity(t)
    \/ \E t \in Callers : update_entity_telemetry(t)
    \/ \E t \in Callers : list_tasks(t)
    \/ \E t \in Callers : get_task(t)
    \/ \E t \in Callers : create_task(t)
    \/ \E t \in Callers : update_task(t)
    \/ \E t \in Callers : delete_task(t)
    \/ \E t \in Callers : get_tasks_by_entity(t)
    \/ \E t \in Callers : acknowledge_task(t)
    \/ \E t \in Callers : start_task(t)
    \/ \E t \in Callers : complete_task(t)
    \/ \E t \in Callers : transition_task_status(t)
    \/ \E t \in Callers : fail_task(t)
    \/ \E t \in Callers : download_object(t)
    \/ \E t \in Callers : view_object(t)
    \/ \E t \in Callers : list_objects(t)
    \/ \E t \in Callers : get_object(t)
    \/ \E t \in Callers : create_object(t)
    \/ \E t \in Callers : create_object_metadata(t)
    \/ \E t \in Callers : update_object(t)
    \/ \E t \in Callers : delete_object(t)
    \/ \E t \in Callers : get_objects_by_entity(t)
    \/ \E t \in Callers : get_objects_by_task(t)
    \/ \E t \in Callers : add_object_reference(t)
    \/ \E t \in Callers : remove_object_reference(t)
    \/ \E t \in Callers : find_orphaned_objects(t)
    \/ \E t \in Callers : get_object_references(t)
    \/ \E t \in Callers : validate_object_references(t)
    \/ \E t \in Callers : cleanup_object_references(t)
    \/ \E t \in Callers : get_changed_since(t)
    \/ \E t \in Callers : get_full_dataset(t)
    \/ \E t \in Tasks : request_completes(t)
    \/ \E t \in Tasks : upload_completes(t)
    \/ \E t \in Tasks : reference_completes(t)
    \/ \E t \in Tasks : download_completes(t)
    \/ \E t \in Tasks : aclose(t)
    \/ \E t \in Tasks : aclose_completes(t)
    \/ \E t \in Tasks : aexit(t)
    \/ \E t \in Tasks : aexit_completes(t)
    \/ \E t \in Tasks : cancel(t)
    \/ \E t \in Tasks : resume(t)

Spec == Init /\ [][Next]_vars

(***************************************************************************)
(* The helper functions of components.py, applied to one argument          *)
(***************************************************************************)

\* the keyword k given with value x, or not given
OptAttr(k, x) == IF x.t = "absent" THEN EmptyMap ELSE k :> x

TelemetryInstances ==
    {PyModel("TelemetryComponent",
             [latitude |-> la, longitude |-> lo, altitude_m |-> al, speed_m_s |-> PyNone,
              heading_deg |-> he]) :
        la \in {PyNone, PyFloat(41)}, lo \in {PyNone, PyFloat(-75)}, al \in {PyNone, PyInt(0)},
        he \in {PyNone, PyFloat(0)}}

HealthInstances ==
    {PyModel("HealthComponent", [battery_percent |-> b]) : b \in {PyNone, PyInt(0), PyInt(85)}}

CustomValues == {PyDict(("wind" :> PyInt(0)) @@ ("gust" :> PyNone)), PyStr("")}

EntityComponentsInstances ==
    {PyModel("EntityComponents",
             OptAttr("telemetry", tel) @@ OptAttr("health", h) @@ OptAttr("custom_weather", cw)) :
        tel \in {Absent, PyNone} \cup TelemetryInstances, h \in {Absent} \cup HealthInstances,
        cw \in {Absent} \cup CustomValues}

TaskComponentsInstances ==
    {PyModel("TaskComponents", OptAttr("command", cmd) @@ OptAttr("parameters", par)) :
        cmd \in {Absent, PyModel("CommandComponent", [type |-> PyStr("goto")])},
        par \in {Absent,
                 PyModel("TaskParametersComponent",
                         ("latitude" :> PyFloat(40)) @@ ("custom_" :> PyList(<<>>)))}}

\* the values components_to_dict is applied to
ComponentsToDictInputs ==
    {PyNone, RawComponents, PyDict(EmptyMap), PyStr("telemetry"), PyInt(0), PyList(<<>>),
     PyModel("ObjectMetadata", "bucket" :> PyStr("b"))}
        \cup TelemetryInstances \cup EntityComponentsInstances \cup TaskComponentsInstances

InitComponentsToDict ==
    /\ client = "AsyncClient"
    /\ httpx_state = "OPENED"
    /\ close_calls = 0
    /\ base_url \in {rstrip(u) : u \in BaseUrls}
    /\ token = PyNone
    /\ pc = [t \in Tasks |-> "idle"]
    /\ call = [t \in Tasks |-> NoCall]
    /\ scope = [state |-> "body", path |-> "none"]
    /\ cancelled = {}
    /\ input \in {[fn |-> "components_to_dict", arg |-> x] : x \in ComponentsToDictInputs}
    /\ output = NotApplied

apply_components_to_dict ==
    /\ output = NotApplied
    /\ input.fn = "components_to_dict"
    /\ output' = components_to_dict(input.arg)
    /\ UNCHANGED <<input, client, httpx_state, close_calls, base_url, token, pc, call, scope,
                   cancelled>>

SpecComponentsToDict == InitComponentsToDict /\ [][apply_components_to_dict]_vars

(***************************************************************************)
(* The component classes: construction, attribute assignment, model_dump   *)
(***************************************************************************)

\* the values the numeric fields are given
LatitudeValues ==
    {Absent, PyNone, PyFloat(-91), PyFloat(-90), PyFloat(90), PyFloat(91), PyBool(TRUE),
     PyStr("1")}
LongitudeValues ==
    {Absent, PyFloat(-181), PyFloat(-180), PyFloat(180), PyFloat(181), PyBool(FALSE)}
AltitudeValues == {Absent, PyInt(0), PyInt(-1000), PyBool(TRUE)}
SpeedValues == {Absent, PyFloat(-1), PyFloat(0), PyBool(FALSE)}
HeadingValues == {Absent, PyFloat(-1), PyFloat(0), PyFloat(359), PyFloat(360), PyBool(TRUE)}
PercentValues ==
    {Absent, PyNone, PyInt(-1), PyInt(0), PyInt(100), PyInt(101), PyFloat(50), PyBool(TRUE),
     PyBool(FALSE), PyStr("85")}
FovValues == {Absent, PyFloat(60), PyBool(TRUE)}
ParameterValues == {Absent, PyFloat(40), PyFloat(999), PyBool(TRUE)}

\* the values the timestamp fields are given
TimestampStrings ==
    {"", "Z", "not-a-date", "2025-01-01", "2025-01-01Z", "2025-01-01T00:00:00",
     "2025-01-01T00:00:00Z", "2025-01-01t00:00:00Z", "2025-01-01T00:00:00z",
     "2025-01-01T00:00:00ZZ", "2025-01-01T00:00:00.5Z", "2025-01-01T00:00:00+00:00",
     "2025-01-01T10:05Z", "2025-13-01T00:00:00Z"}
TimestampValues == {PyStr(x) : x \in TimestampStrings} \cup {PyNone, PyInt(5), PyBool(TRUE)}

\* the values the required string fields are given
StringValues == {Absent, PyNone, PyStr(""), PyStr("active"), PyInt(0)}

\* keys that are no field of any open type
ExtraKeys == {"custom_", "custom_weather", "custom", "unknown_component", "my_custom_x"}

\* the values given under such keys
ExtensionValues ==
    {PyNone, PyInt(0), PyStr(""), PyList(<<>>), PyDict("wind" :> PyInt(12)),
     PyDict(("wind" :> PyInt(0)) @@ ("gust" :> PyNone)),
     PyList(<<PyNone, PyDict("gust" :> PyNone)>>), Telemetry4175}

\* no extra key, one, or two
ExtraKwargs ==
    {EmptyMap}
        \cup {k :> x : k \in ExtraKeys, x \in ExtensionValues}
        \cup {("custom_weather" :> x) @@ (k :> PyInt(1)) :
                x \in ExtensionValues, k \in ExtraKeys \ {"custom_weather"}}

\* the keyword arguments each class is constructed with
Kwargs(cls) ==
    CASE cls = "TelemetryComponent" ->
            {OptAttr("latitude", la) @@ OptAttr("longitude", lo) @@ OptAttr("altitude_m", al)
                 @@ OptAttr("speed_m_s", sp) @@ OptAttr("heading_deg", he) :
                la \in LatitudeValues, lo \in LongitudeValues, al \in AltitudeValues,
                sp \in SpeedValues, he \in HeadingValues}
      [] cls = "HealthComponent" ->
            {OptAttr("battery_percent", b) : b \in PercentValues}
                \cup {"battery" :> PyInt(85)}
      [] cls = "TaskProgressComponent" ->
            {OptAttr("percent", pc0) @@ OptAttr("updated_at", ts) @@ OptAttr("status_detail", sd) :
                pc0 \in PercentValues, ts \in {Absent} \cup TimestampValues,
                sd \in {Absent, PyStr("")}}
      [] cls = "SensorRefItem" ->
            {OptAttr("sensor_id", id) @@ ("type" :> PyStr("camera"))
                 @@ OptAttr("vertical_fov", vf) @@ OptAttr("horizontal_fov", hf)
                 @@ OptAttr("vertical_orientation", vo) @@ OptAttr("horizontal_orientation", ho) :
                id \in {Absent, PyStr("cam-1")}, vf \in FovValues, hf \in FovValues,
                vo \in FovValues, ho \in FovValues}
      [] cls = "TaskParametersComponent" ->
            {OptAttr("latitude", la) @@ OptAttr("longitude", lo) @@ OptAttr("altitude_m", al) @@ x :
                la \in ParameterValues, lo \in ParameterValues, al \in ParameterValues,
                x \in {EmptyMap, "custom_" :> PyList(<<>>), "speed" :> PyFloat(5)}}
                \cup ExtraKwargs
      [] cls = "StatusComponent" ->
            {OptAttr("value", v) @@ OptAttr("last_update", ts) :
                v \in StringValues, ts \in {Absent} \cup TimestampValues}
      [] cls = "HeartbeatComponent" ->
            {OptAttr("last_seen", ts) : ts \in {Absent, PyInt(0)} \cup TimestampValues}
      [] cls = "MilViewComponent" ->
            {OptAttr("classification", c) @@ OptAttr("last_seen", ts) :
                c \in {Absent, PyStr("friendly")}, ts \in {Absent} \cup TimestampValues}
      [] cls = "CommandComponent" -> {OptAttr("type", ty) : ty \in StringValues}
      [] cls = "EntityComponents" ->
            {OptAttr("telemetry", tel) @@ OptAttr("health", h) @@ x :
                tel \in {Absent, PyNone, Telemetry4175, PyDict("latitude" :> PyFloat(999))},
                h \in {Absent, PyModel("HealthComponent", [battery_percent |-> PyInt(0)])},
                x \in ExtraKwargs}
      [] cls = "TaskComponents" ->
            {OptAttr("command", cmd) @@ x :
                cmd \in {Absent, PyModel("CommandComponent", [type |-> PyStr("goto")])},
                x \in ExtraKwargs}
      [] cls = "ObjectMetadata" ->
            {OptAttr("bucket", b) @@ OptAttr("usage_hints", u) @@ x :
                b \in {Absent, PyStr("")}, u \in {Absent, PyList(<<>>)}, x \in ExtraKwargs}
      [] cls = "GeometryComponent" ->
            {OptAttr("type", ty) @@ ("coordinates" :> co) :
                ty \in {Absent, PyStr("Point"), PyStr("LineString"), PyStr("Polygon"),
                        PyStr("Circle")},
                co \in {PyList(<<PyFloat(1), PyFloat(2)>>),
                        PyList(<<PyList(<<PyFloat(1), PyFloat(2)>>),
                                 PyList(<<PyFloat(3), PyFloat(4)>>)>>),
                        PyList(<<PyList(<<PyList(<<PyFloat(1), PyFloat(2)>>),
                                          PyList(<<PyFloat(3), PyFloat(4)>>),
                                          PyList(<<PyFloat(1), PyFloat(2)>>)>>)>>)}}
      [] cls = "TaskCatalogComponent" ->
            {EmptyMap, "supported_tasks" :> PyList(<<PyStr("goto")>>)}
      [] cls = "TaskQueueComponent" ->
            {EmptyMap, "current_task_id" :> PyStr("task-alpha"), "queue" :> PyList(<<>>)}
      [] cls = "MediaRefItem" ->
            {("object_id" :> PyStr("obj-123")) @@ OptAttr("role", r) :
                r \in {Absent, PyStr("thumbnail")}}
      [] cls = "CommunicationsComponent" -> {EmptyMap, "link_state" :> PyStr("connected")}
      [] cls = "ObjectReferenceItem" ->
            {OptAttr("entity_id", e) @@ OptAttr("task_id", k) :
                e \in {Absent} \cup EntityIds, k \in {Absent} \cup TaskIds}
      [] OTHER -> {}

Classes ==
    {"TelemetryComponent", "GeometryComponent", "TaskCatalogComponent", "MediaRefItem",
     "MilViewComponent", "HealthComponent", "SensorRefItem", "CommunicationsComponent",
     "TaskQueueComponent", "StatusComponent", "HeartbeatComponent", "EntityComponents",
     "CommandComponent", "TaskParametersComponent", "TaskProgressComponent", "TaskComponents",
     "ObjectReferenceItem", "ObjectMetadata"}

InitComponents ==
    /\ client = "AsyncClient"
    /\ httpx_state = "OPENED"
    /\ close_calls = 0
    /\ base_url = rstrip(<<"http://atlas.local">>)
    /\ token = PyNone
    /\ pc = [t \in Tasks |-> "idle"]
    /\ call = [t \in Tasks |-> NoCall]
    /\ scope = [state |-> "body", path |-> "none"]
    /\ cancelled = {}
    /\ \E cls \in Classes : \E kwargs \in Kwargs(cls) :
          input = [fn |-> "construct", cls |-> cls, kwargs |-> kwargs]
    /\ output = NotApplied

\* component = cls(**kwargs)
construct_component ==
    /\ output = NotApplied
    /\ input.fn = "construct"
    /\ output' = construct(input.cls, input.kwargs)
    /\ UNCHANGED <<input, client, httpx_state, close_calls, base_url, token, pc, call, scope,
                   cancelled>>

\* the values a field is assigned after construction
AssignedValues == {PyNone, PyFloat(91), PyBool(TRUE)}

\* component.<field> = x: the classes are declared with a plain @dataclass, which
\* leaves attribute assignment as it is for any object
set_attribute ==
    /\ output = construct(input.cls, input.kwargs)
    /\ output.kind = "return"
    /\ \E f \in Fields(input.cls), x \in AssignedValues :
          output' = Return([output.value EXCEPT
                               !.attrs = (f :> x) @@ output.value.attrs])
    /\ UNCHANGED <<input, client, httpx_state, close_calls, base_url, token, pc, call, scope,
                   cancelled>>

\* component.model_dump(exclude_none=True)
dump_component ==
    /\ output.kind = "return"
    /\ output' = [kind |-> "dumped", of |-> output.value,
                  value |-> model_dump(output.value, TRUE)]
    /\ UNCHANGED <<input, client, httpx_state, close_calls, base_url, token, pc, call, scope,
                   cancelled>>

NextComponents == construct_component \/ set_attribute \/ dump_component

SpecComponents == InitComponents /\ [][NextComponents]_vars

(***************************************************************************)
(* Properties                                                              *)
(***************************************************************************)

IsUpload(r) == r.method = "POST" /\ r.path = <<"objects", "upload">>

IsAddReference(r) ==
    r.method = "POST" /\ Len(r.path) = 3 /\ r.path[1] = "objects" /\ r.path[3] = "references"

NonEmptyList(x) == x.t = "list" /\ Len(x.v) > 0

\* the number of entries of the referenced_by argument of a create_object call
RefCount(c) ==
    IF c.args.v.referenced_by.t = "list" THEN Len(c.args.v.referenced_by.v) ELSE 0

\* the transport answered with a 2xx status
Succeeded(resp) == resp.kind = "response" /\ is_success(resp.status)

\* the transport failed, or answered with a status outside 2xx
Failed(resp) == resp.kind = "error" \/ (resp.kind = "response" /\ ~is_success(resp.status))

\* a successful upload answer that names no object_id
LacksObjectId(resp) ==
    /\ Succeeded(resp)
    /\ \/ resp.content.t = "absent"
       \/ "object_id" \notin DOMAIN resp.content.v
       \/ resp.content.v["object_id"].t = "None"

\* the request carries the entity_id and the task_id of the entry, and nothing else
CarriesEntry(r, entry) ==
    /\ r.json.t = "dict"
    /\ DOMAIN r.json.v = {"entity_id", "task_id"}
    /\ \A key \in {"entity_id", "task_id"} :
          r.json.v[key] = IF key \in DOMAIN entry.v THEN entry.v[key] ELSE PyNone

\* C1: create_object called with a non-empty referenced_by list, whose upload is
\* answered without an object_id, raises the workflow-integrity error, and the
\* call has sent exactly one request, the upload, and no add-reference request.
C1_UploadWithoutObjectIdRaises ==
    \A t \in Tasks :
        LET c == call[t]
        IN  (/\ c.op = "create_object"
             /\ NonEmptyList(c.args.v.referenced_by)
             /\ Len(c.reqs) >= 1
             /\ LacksObjectId(c.reqs[1].resp))
            => /\ c.state = "raised"
               /\ c.exc = "WorkflowIntegrity"
               /\ Len(c.reqs) = 1
               /\ IsUpload(c.reqs[1])
               /\ \A i \in 1..Len(c.reqs) : ~IsAddReference(c.reqs[i])

C1_Witness ==
    \E t \in Tasks :
        /\ call[t].op = "create_object"
        /\ NonEmptyList(call[t].args.v.referenced_by)
        /\ Len(call[t].reqs) = 1
        /\ LacksObjectId(call[t].reqs[1].resp)
        /\ call[t].exc = "WorkflowIntegrity"

\* C2: a create_object call that returns has sent exactly the upload followed by
\* one add-reference request per entry of referenced_by, in list order, each with
\* the entity_id and task_id of its entry; and at any time every request of a
\* create_object call but the last one has been answered successfully, so the
\* requests go out one at a time.
C2_OneReferencePerEntryInOrder ==
    \A t \in Tasks :
        LET c == call[t]
        IN  c.op = "create_object"
            => /\ \A i \in 1..(Len(c.reqs) - 1) : Succeeded(c.reqs[i].resp)
               /\ c.state = "returned"
                  => /\ Len(c.reqs) = 1 + RefCount(c)
                     /\ IsUpload(c.reqs[1])
                     /\ \A k \in 1..RefCount(c) :
                           /\ IsAddReference(c.reqs[k + 1])
                           /\ CarriesEntry(c.reqs[k + 1], c.args.v.referenced_by.v[k])

C2_Witness ==
    \E t \in Tasks :
        /\ call[t].op = "create_object"
        /\ call[t].state = "returned"
        /\ RefCount(call[t]) = 3
        /\ call[t].args.v.referenced_by.v[1] # call[t].args.v.referenced_by.v[2]
        /\ Len(call[t].reqs) = 4

\* C3: when the add-reference call for entry k of a create_object call fails, the
\* call raises that failure, the requests for the entries up to k were sent in
\* order and those before k were answered successfully, no request for an entry
\* after k is sent, and the call sends no DELETE request.
C3_ReferenceFailureAbortsWithoutRollback ==
    \A t \in Tasks :
        LET c == call[t]
        IN  c.op = "create_object"
            => /\ \A k \in 1..RefCount(c) :
                     (Len(c.reqs) >= k + 1 /\ Failed(c.reqs[k + 1].resp))
                     => /\ c.state = "raised"
                        /\ c.exc = IF c.reqs[k + 1].resp.kind = "error"
                                   THEN "TransportError" ELSE "HTTPStatusError"
                        /\ Len(c.reqs) = k + 1
                        /\ \A j \in 1..(k - 1) : Succeeded(c.reqs[j + 1].resp)
               /\ (c.state = "raised" /\ c.k >= 1)
                  => /\ Len(c.reqs) \in {c.k, c.k + 1}
                     /\ \A j \in 1..(Len(c.reqs) - 1) :
                           /\ IsAddReference(c.reqs[j + 1])
                           /\ CarriesEntry(c.reqs[j + 1], c.args.v.referenced_by.v[j])
                     /\ \A j \in 1..Len(c.reqs) : c.reqs[j].method # "DELETE"

C3_Witness ==
    \E t \in Tasks :
        /\ call[t].op = "create_object"
        /\ RefCount(call[t]) = 3
        /\ Len(call[t].reqs) = 3
        /\ Succeeded(call[t].reqs[2].resp)
        /\ Failed(call[t].reqs[3].resp)
        /\ call[t].state = "raised"

\* the stored object record _multipart_request parses from the upload's answer
StoredRecord(resp) == IF resp.content.t = "absent" THEN PyDict(EmptyMap) ELSE resp.content

\* C4: a create_object call that returns, returns the stored object record of
\* the upload's answer, however many references it attached and whatever their
\* calls returned.
C4_ReturnsStoredRecord ==
    \A t \in Tasks :
        LET c == call[t]
        IN  (c.op = "create_object" /\ c.state = "returned")
            => c.result = StoredRecord(c.reqs[1].resp)

C4_Witness ==
    \E t \in Tasks :
        /\ call[t].op = "create_object"
        /\ call[t].state = "returned"
        /\ RefCount(call[t]) = 2
        /\ Succeeded(call[t].reqs[3].resp)
        /\ call[t].reqs[3].resp.content # call[t].result

\* the operations that serialize a components argument
ComponentOps == {"create_entity", "update_entity", "create_task", "update_task"}

\* the call's arguments miss a required value
ValueInvalid(c) ==
    \/ c.op = "update_entity" /\ c.args.v.components.t = "None" /\ c.args.v.subtype.t = "None"
    \/ c.op = "update_object" /\ c.args.v.usage_hints.t = "None"
                              /\ c.args.v.referenced_by.t = "None"
    \/ c.op = "create_object" /\ ~Truthy(c.args.v.content_type)

\* the call's components argument is no mapping and no typed components instance
TypeInvalid(c) ==
    /\ c.op \in ComponentOps
    /\ c.args.v.components.t \notin {"None", "dict"}
    /\ ~(c.args.v.components.t = "model"
         /\ c.args.v.components.cls \in {"EntityComponents", "TaskComponents"})

\* an operation other than aclose that started after self._client became None
StartedClosed(c) == c.op \notin {"", "aclose"} /\ c.client_at_start = "None"

\* C5 as claimed: after aclose has completed, every operation, whatever its
\* arguments, fails with "Client is closed", sends no request, and the client
\* stays closed.
C5_Original ==
    \A t \in Tasks :
        StartedClosed(call[t])
        => /\ call[t].state = "raised"
           /\ call[t].exc = "ClientIsClosed"
           /\ call[t].reqs = <<>>
           /\ client = "None"

\* C5, amended: after aclose has completed, every operation fails, sends no
\* request, and the client stays closed; the error is "Client is closed" unless
\* the arguments fail the operation's local validation, which comes first and
\* raises its own error.
C5_ClosedClientFailsEveryOperation ==
    \A t \in Tasks :
        StartedClosed(call[t])
        => /\ call[t].state = "raised"
           /\ call[t].exc = IF ValueInvalid(call[t]) THEN "ValueError"
                            ELSE IF TypeInvalid(call[t]) THEN "TypeError"
                            ELSE "ClientIsClosed"
           /\ call[t].reqs = <<>>
           /\ client = "None"
           /\ httpx_state = "CLOSED"

C5_Witness ==
    /\ call["other"].op = "aclose"
    /\ call["other"].state = "returned"
    /\ StartedClosed(call["main"])
    /\ call["main"].op = "create_object"
    /\ call["main"].exc = "ClientIsClosed"

\* C6: once the async with block is left, by whichever path, the client is
\* closed: self._client is None and the connection's close was invoked.
C6_ScopeExitClosesClient ==
    scope.state = "exited" => (client = "None" /\ httpx_state = "CLOSED" /\ close_calls >= 1)

\* C7: update_entity called with neither components nor subtype raises the
\* validation error and sends no request, for every entity_id.
C7_UpdateEntityNeedsAField ==
    \A t \in Tasks :
        LET c == call[t]
        IN  (/\ c.op = "update_entity"
             /\ c.args.v.components.t = "None"
             /\ c.args.v.subtype.t = "None")
            => (c.state = "raised" /\ c.exc = "ValueError" /\ c.reqs = <<>>)

C7_Witness ==
    \E t \in Tasks :
        /\ call[t].op = "update_entity"
        /\ call[t].args.v.components.t = "None"
        /\ call[t].args.v.subtype.t = "None"
        /\ call[t].client_at_start = "AsyncClient"
        /\ call[t].exc = "ValueError"

\* the fields an update_object call supplies
Supplied(c) == {k \in {"usage_hints", "referenced_by"} : c.args.v[k].t # "None"}

\* C8: update_object called with neither usage_hints nor referenced_by raises the
\* validation error and sends no request; called with at least one of them, an
\* empty list included, it sends, unless the client is closed, exactly one PATCH
\* of the object whose body holds exactly the supplied fields.
C8_UpdateObjectSendsSuppliedFields ==
    \A t \in Tasks :
        LET c == call[t]
        IN  c.op = "update_object"
            => IF Supplied(c) = {}
               THEN c.state = "raised" /\ c.exc = "ValueError" /\ c.reqs = <<>>
               ELSE \/ c.exc \in {"ClientIsClosed", "HttpxClosed"} /\ c.reqs = <<>>
                    \/ /\ Len(c.reqs) = 1
                       /\ c.reqs[1].method = "PATCH"
                       /\ c.reqs[1].path = <<"objects", c.args.v.object_id.v>>
                       /\ c.reqs[1].json.t = "dict"
                       /\ DOMAIN c.reqs[1].json.v = Supplied(c)
                       /\ \A k \in Supplied(c) : c.reqs[1].json.v[k] = c.args.v[k]

C8_Witness ==
    \E t \in Tasks :
        /\ call[t].op = "update_object"
        /\ call[t].args.v.usage_hints = PyList(<<>>)
        /\ call[t].args.v.referenced_by.t = "None"
        /\ Len(call[t].reqs) = 1
        /\ call[t].state = "returned"

\* C9: components_to_dict raises a type error for a plain mapping, returns None
\* for None, returns the omit-unset serialization of an EntityComponents or
\* TaskComponents instance, and raises a type error for every other value.
C9_ComponentsToDictContract ==
    (input.fn = "components_to_dict" /\ output # NotApplied)
    => output = CASE input.arg.t = "None" -> Return(PyNone)
                  [] input.arg.t = "model"
                        /\ input.arg.cls \in {"EntityComponents", "TaskComponents"} ->
                        Return(model_dump(input.arg, TRUE))
                  [] OTHER -> Raise("TypeError")

\* C10: create_entity called with a raw dict as components raises the type error
\* and sends no request.
C10_CreateEntityRejectsRawDict ==
    \A t \in Tasks :
        (call[t].op = "create_entity" /\ call[t].args.v.components.t = "dict")
        => (call[t].state = "raised" /\ call[t].exc = "TypeError" /\ call[t].reqs = <<>>)

\* the component whose construction or serialization the state holds
Built == output.kind \in {"return", "dumped"}
Component == IF output.kind = "dumped" THEN output.of ELSE output.value

\* the construction was attempted, with keys the class takes and every required one
Attempted == input.fn = "construct" /\ output # NotApplied
WellKeyed ==
    /\ \A key \in DOMAIN input.kwargs :
          key \in Fields(input.cls) \/ (input.cls \in OpenTypes /\ HasCustomPrefix(key))
    /\ Required(input.cls) \subseteq DOMAIN input.kwargs

\* the fields declared as numbers
NumericFields(cls) ==
    CASE cls = "TelemetryComponent" ->
            {"latitude", "longitude", "altitude_m", "speed_m_s", "heading_deg"}
      [] cls = "HealthComponent" -> {"battery_percent"}
      [] cls = "SensorRefItem" ->
            {"vertical_fov", "horizontal_fov", "vertical_orientation", "horizontal_orientation"}
      [] cls = "TaskParametersComponent" -> {"latitude", "longitude", "altitude_m"}
      [] cls = "TaskProgressComponent" -> {"percent"}
      [] OTHER -> {}

\* the keyword argument is given and is not None
Given(key) == key \in DOMAIN input.kwargs /\ input.kwargs[key].t # "None"

\* C11: constructing a component with a boolean in one of its numeric fields
\* fails with a type error; no instance holding the boolean is produced.
C11_BooleanInNumericFieldRejected ==
    (/\ Attempted
     /\ WellKeyed
     /\ \E f \in NumericFields(input.cls) : Given(f) /\ input.kwargs[f].t = "bool")
    => (output.kind = "raise" /\ output.exc = "TypeError")

\* the telemetry data of a mapping satisfies what TelemetryComponent validates
ValidTelemetry(d) ==
    d.t = "dict"
    => post_init("TelemetryComponent",
                 [f \in Fields("TelemetryComponent") |-> DictGet(d, f)]) = Passed

\* the telemetry a request carries inside its components, if any
ComponentsTelemetry(r) ==
    IF r.json.t = "dict" /\ "components" \in DOMAIN r.json.v
          /\ r.json.v["components"].t = "dict"
          /\ "telemetry" \in DOMAIN r.json.v["components"].v
    THEN r.json.v["components"].v["telemetry"]
    ELSE PyNone

\* C12: no request handed to the transport carries telemetry data that violates
\* the data-model invariants, neither as the body of checkin_entity and
\* update_entity_telemetry nor inside the components of an entity.
C12_NoInvalidDataReachesNetwork ==
    \A t \in Tasks : \A i \in 1..Len(call[t].reqs) :
        /\ call[t].op \in {"checkin_entity", "update_entity_telemetry"}
           => ValidTelemetry(call[t].reqs[i].json)
        /\ call[t].op \in {"create_entity", "update_entity"}
           => ValidTelemetry(ComponentsTelemetry(call[t].reqs[i]))

\* C13: a constructed component never changes: at any later time it still is what
\* construction returned, and so still satisfies what construction validated.
C13_ComponentsAreImmutable ==
    (Attempted /\ Built)
    => /\ Component = construct(input.cls, input.kwargs).value
       /\ post_init(Component.cls, Component.attrs) = Passed

\* no mapping inside x, at any depth, has a key whose value is None
RECURSIVE NoNoneValue(_)
NoNoneValue(x) ==
    CASE x.t = "dict" -> \A k \in DOMAIN x.v : x.v[k].t # "None" /\ NoNoneValue(x.v[k])
      [] x.t = "list" -> \A i \in 1..Len(x.v) : NoNoneValue(x.v[i])
      [] OTHER -> TRUE

\* a value that is falsy but present: 0, "", an empty list
FalsyPresent(x) ==
    \/ x.t \in {"int", "float"} /\ x.v = 0
    \/ x.t = "str" /\ x.v = ""
    \/ x.t = "list" /\ x.v = <<>>

\* the declared and the extension keys of an instance
KeysOf(obj) == Fields(obj.cls) \cup {k \in DOMAIN obj.attrs : HasCustomPrefix(k)}

\* the mapping d holds every key of obj whose value is falsy but present, with
\* that value, also inside the instances obj holds
RECURSIVE KeepsFalsy(_, _)
KeepsFalsy(obj, d) ==
    \A k \in KeysOf(obj) :
        LET x == Getattr(obj, k)
        IN  /\ FalsyPresent(x) => (k \in DOMAIN d.v /\ d.v[k] = x)
            /\ x.t = "model" => (k \in DOMAIN d.v /\ KeepsFalsy(x, d.v[k]))

\* C14: model_dump(exclude_none=True) of a component holds no key whose value is
\* None, at any depth of mappings, and holds every declared or extension key
\* whose value is 0, "" or an empty list.
C14_OmitUnsetSerialization ==
    output.kind = "dumped"
    => (NoNoneValue(output.value) /\ KeepsFalsy(output.of, output.value))

C14_Witness ==
    /\ output.kind = "dumped"
    /\ output.of.cls = "EntityComponents"
    /\ "custom_weather" \in DOMAIN output.of.attrs
    /\ output.of.attrs["custom_weather"] = PyDict(("wind" :> PyInt(0)) @@ ("gust" :> PyNone))
    /\ "health" \in DOMAIN output.of.attrs
    /\ "telemetry" \notin DOMAIN output.value.v

\* C15: constructing an open type succeeds iff every supplied key is a declared
\* field of the type or starts with "custom_"; otherwise it fails with the
\* "Unknown ..." validation error and produces no instance.
C15_OpenTypesAcceptKnownAndPrefixedKeys ==
    (Attempted /\ input.cls \in OpenTypes)
    => IF DOMAIN input.kwargs \subseteq Fields(input.cls) \cup CustomKeys
       THEN Built /\ \A key \in DOMAIN input.kwargs : key \in DOMAIN Component.attrs
       ELSE output = RaiseMsg("ValueError", "Unknown")

C15_Witness ==
    /\ Attempted
    /\ input.cls = "ObjectMetadata"
    /\ DOMAIN input.kwargs = {"custom_weather", "my_custom_x"}
    /\ output.kind = "raise"

\* x is plain data: it holds no component instance
RECURSIVE PlainData(_)
PlainData(x) ==
    CASE x.t = "model" -> FALSE
      [] x.t = "dict" -> \A k \in DOMAIN x.v : PlainData(x.v[k])
      [] x.t = "list" -> \A i \in 1..Len(x.v) : PlainData(x.v[i])
      [] OTHER -> TRUE

\* an open type was constructed with extension keys and serialized as constructed
DumpedAsConstructed ==
    /\ Attempted
    /\ input.cls \in OpenTypes
    /\ output.kind = "dumped"
    /\ output.of = construct(input.cls, input.kwargs).value

\* C16 as claimed: the omit-unset serialization holds every extension key given
\* at construction, mapped to a value equal to the one given.
C16_Original ==
    DumpedAsConstructed
    => \A key \in DOMAIN input.kwargs \cap CustomKeys :
          key \in DOMAIN output.value.v /\ output.value.v[key] = input.kwargs[key]

\* C16, amended: an extension key given as None is omitted from the omit-unset
\* serialization; any other is held by it, and its value equals the value given
\* whenever that is plain data with no None-valued mapping entry at any depth.
C16_ExtensionFieldRoundTrip ==
    DumpedAsConstructed
    => \A key \in DOMAIN input.kwargs \cap CustomKeys :
          LET given == input.kwargs[key]
          IN  /\ key \in DOMAIN output.value.v <=> given.t # "None"
              /\ (given.t # "None" /\ PlainData(given) /\ NoNoneValue(given))
                 => output.value.v[key] = given

C16_Witness ==
    /\ DumpedAsConstructed
    /\ input.cls = "EntityComponents"
    /\ "custom_weather" \in DOMAIN input.kwargs
    /\ input.kwargs["custom_weather"] = PyList(<<PyNone, PyDict("gust" :> PyNone)>>)
    /\ "custom_" \in DOMAIN input.kwargs
    /\ output.value.v["custom_"] = PyInt(1)

\* the keyword argument is not given, or is a number that is no boolean
NumberOrUnset(key) == ~Given(key) \/ input.kwargs[key].t \in {"int", "float"}

\* the ranges of the telemetry fields, on arguments that are numbers or unset
TelemetryInRange ==
    /\ Given("latitude") => (-90 <= input.kwargs["latitude"].v /\ input.kwargs["latitude"].v <= 90)
    /\ Given("longitude")
       => (-180 <= input.kwargs["longitude"].v /\ input.kwargs["longitude"].v <= 180)
    /\ Given("speed_m_s") => input.kwargs["speed_m_s"].v >= 0
    /\ Given("heading_deg")
       => (0 <= input.kwargs["heading_deg"].v /\ input.kwargs["heading_deg"].v < 360)

\* C17: TelemetryComponent is constructed iff every supplied field is a number
\* that is no boolean, latitude is in [-90, 90], longitude in [-180, 180],
\* speed_m_s is not negative and heading_deg is in [0, 360); a supplied value
\* that is no number raises a type error, a number out of range a range error.
C17_TelemetryValidation ==
    (Attempted /\ input.cls = "TelemetryComponent" /\ WellKeyed)
    => LET numbers == \A f \in Fields("TelemetryComponent") : NumberOrUnset(f)
       IN  /\ Built <=> (numbers /\ TelemetryInRange)
           /\ ~numbers => (output.kind = "raise" /\ output.exc = "TypeError")
           /\ (numbers /\ ~TelemetryInRange)
              => (output.kind = "raise" /\ output.exc = "ValueError")

C17_Witness ==
    /\ Attempted
    /\ input.cls = "TelemetryComponent"
    /\ DOMAIN input.kwargs = {"latitude", "longitude", "heading_deg"}
    /\ input.kwargs["latitude"] = PyFloat(90)
    /\ input.kwargs["longitude"] = PyFloat(-180)
    /\ input.kwargs["heading_deg"] = PyFloat(0)
    /\ output.kind = "return"

\* the percentage field of the two classes that have one
PercentField == IF input.cls = "HealthComponent" THEN "battery_percent" ELSE "percent"

\* C18: HealthComponent and TaskProgressComponent (its other fields left unset)
\* are constructed iff the percentage is unset or an integer from 0 to 100; an
\* integer outside that range raises a range error, a boolean or a value that is
\* no number a type error.
C18_PercentIsOptionalInteger ==
    (/\ Attempted
     /\ input.cls \in {"HealthComponent", "TaskProgressComponent"}
     /\ DOMAIN input.kwargs \subseteq {PercentField})
    => LET given == Given(PercentField)
           x == input.kwargs[PercentField]
       IN  /\ Built <=> (~given \/ (x.t = "int" /\ 0 <= x.v /\ x.v <= 100))
           /\ (given /\ x.t = "int" /\ ~(0 <= x.v /\ x.v <= 100))
              => (output.kind = "raise" /\ output.exc = "ValueError")
           /\ (given /\ x.t \notin {"int", "float"})
              => (output.kind = "raise" /\ output.exc = "TypeError")

\* an RFC 3339 date-time: full-date, "T", a time with seconds, an optional
\* fraction, and "Z" or a numeric offset ("t" and "z" are allowed for "T" and "Z")
Rfc3339(s) ==
    /\ Len(s) \in {4, 5}
    /\ s[1] = "2025-01-01"
    /\ s[2] \in {"T", "t"}
    /\ s[3] = "00:00:00"
    /\ s[Len(s)] \in {"Z", "z", "+00:00"}
    /\ Len(s) = 5 => s[4] = ".5"

\* the classes with a timestamp field, and that field
TimestampClasses ==
    {"MilViewComponent", "StatusComponent", "HeartbeatComponent", "TaskProgressComponent"}
TimestampField ==
    CASE input.cls = "StatusComponent" -> "last_update"
      [] input.cls = "TaskProgressComponent" -> "updated_at"
      [] OTHER -> "last_seen"

\* a construction that only the timestamp can fail: a non-empty timestamp value,
\* a non-empty status value, no percentage
OnlyTimestampAtStake ==
    /\ Attempted
    /\ input.cls \in TimestampClasses
    /\ WellKeyed
    /\ Given(TimestampField)
    /\ Truthy(input.kwargs[TimestampField])
    /\ input.cls = "StatusComponent" => input.kwargs["value"] = PyStr("active")
    /\ input.cls = "TaskProgressComponent" => "percent" \notin DOMAIN input.kwargs

\* C19: a timestamp field given a string ending in "Z" is accepted iff the string
\* with that "Z" replaced by "+00:00" is a valid RFC 3339 timestamp; a string
\* that is not accepted raises a validation error, a value that is no string a
\* type error.
C19_TimestampValidation ==
    OnlyTimestampAtStake
    => LET x == input.kwargs[TimestampField]
       IN  /\ (x.t = "str" /\ endswith(Spell(x.v), <<"Z">>))
              => (Built <=> Rfc3339(SubSeq(Spell(x.v), 1, Len(Spell(x.v)) - 1) \o <<"+00:00">>))
           /\ (x.t = "str" /\ ~Built) => (output.kind = "raise" /\ output.exc = "ValueError")
           /\ x.t # "str" => (output.kind = "raise" /\ output.exc = "TypeError")

\* the required string field of the classes that have one
RequiredString ==
    CASE input.cls = "StatusComponent" -> "value"
      [] input.cls = "HeartbeatComponent" -> "last_seen"
      [] OTHER -> "type"

RECURSIVE NestingDepth(_)
NestingDepth(x) ==
    IF x.t # "list" THEN 0
    ELSE IF x.v = <<>> THEN 1
    ELSE 1 + NestingDepth(x.v[1])

\* the nesting depth GeoJSON gives the coordinates of each geometry type
GeoJsonDepth == ("Point" :> 1) @@ ("LineString" :> 2) @@ ("Polygon" :> 3)

\* C21: every constructed GeometryComponent has a type among Point, LineString
\* and Polygon, and coordinates nested as deep as that type requires.
C21_GeometryDepthMatchesType ==
    (Attempted /\ Built /\ input.cls = "GeometryComponent")
    => /\ Component.attrs["type"].t = "str"
       /\ Component.attrs["type"].v \in DOMAIN GeoJsonDepth
       /\ NestingDepth(Component.attrs["coordinates"])
             = GeoJsonDepth[Component.attrs["type"].v]

\* a token, a non-empty string, was given at construction
TokenConfigured == token.t = "str" /\ token.v # ""

\* C22: every request sent carries Authorization: Bearer <token> iff a token (a
\* non-empty string) was given at construction; every request but the object
\* upload also carries Content-Type: application/json, and the upload carries no
\* header but the bearer one.
C22_RequestHeaders ==
    \A t \in Tasks : \A i \in 1..Len(call[t].reqs) :
        LET r == call[t].reqs[i]
        IN  /\ "Authorization" \in DOMAIN r.headers <=> TokenConfigured
            /\ TokenConfigured => r.headers["Authorization"] = <<"Bearer ", token.v>>
            /\ IF IsUpload(r)
               THEN DOMAIN r.headers \subseteq {"Authorization"}
               ELSE /\ DOMAIN r.headers \subseteq {"Authorization", "Content-Type"}
                    /\ "Content-Type" \in DOMAIN r.headers
                    /\ r.headers["Content-Type"] = <<"application/json">>

C22_Witness ==
    /\ TokenConfigured
    /\ call["main"].op = "create_object"
    /\ Len(call["main"].reqs) = 2
    /\ IsUpload(call["main"].reqs[1])
    /\ "Authorization" \in DOMAIN call["main"].reqs[1].headers
    /\ "Content-Type" \in DOMAIN call["main"].reqs[2].headers

\* the operations that consist of one call of _request: every operation but
\* the multipart upload workflow, the two raw downloads and aclose
JsonOperation(c) == c.op \notin {"", "aclose", "create_object", "download_object", "view_object"}

\* the transport answered the request of call c with an HTTP response
AnsweredCall(c) ==
    /\ Len(c.reqs) = 1
    /\ c.reqs[1].resp.kind = "response"

\* what a JSON operation does with an HTTP response: HTTPStatusError and no
\* value outside 2xx, None for an empty 2xx body, and for a 2xx body the parsed
\* JSON when `parsed` holds of the call and None otherwise
JsonOutcome(c, parsed) ==
    LET resp == c.reqs[1].resp
    IN  IF ~is_success(resp.status)
        THEN c.state = "raised" /\ c.exc = "HTTPStatusError" /\ c.result = Absent
        ELSE IF resp.content.t = "absent"
        THEN c.state = "returned" /\ c.result = PyNone
        ELSE /\ c.state = "returned"
             /\ c.result = IF parsed THEN resp.content ELSE PyNone
             /\ PlainData(resp.content)

\* C23, amended: for every JSON operation and every response, a non-2xx status
\* raises an HTTP-status failure (the response, with status and body, stays with
\* the failed call) and the operation returns no value; a 2xx response with an
\* empty body yields None; a 2xx response with a non-empty body yields the
\* parsed JSON as plain data, except that delete_entity, delete_task and
\* delete_object return None on every 2xx response.
C23_JsonResponseHandling ==
    \A t \in Tasks :
        JsonOperation(call[t]) /\ AnsweredCall(call[t])
            => JsonOutcome(call[t], call[t].op \notin ReturnNone)

\* C23 as claimed: every JSON operation yields the parsed JSON of a non-empty
\* 2xx body.
C23_Original ==
    \A t \in Tasks :
        JsonOperation(call[t]) /\ AnsweredCall(call[t]) => JsonOutcome(call[t], TRUE)

\* a delete operation was answered 200 with a JSON body and returned None
C23_Witness ==
    /\ call["main"].op \in ReturnNone
    /\ AnsweredCall(call["main"])
    /\ Succeeded(call["main"].reqs[1].resp)
    /\ call["main"].reqs[1].resp.content.t = "dict"
    /\ call["main"].state = "returned"
    /\ call["main"].result = PyNone

\* C24: the client never retries and never suppresses a failure: a call of an
\* operation other than create_object sends at most one request, and a call
\* whose request met a transport failure or a status outside 2xx raises that
\* failure to its caller and returns no result.
C24_NoRetryNoSuppression ==
    \A t \in Tasks :
        LET c == call[t]
        IN  /\ c.op # "create_object" => Len(c.reqs) <= 1
            /\ \A i \in 1..Len(c.reqs) :
                   Failed(c.reqs[i].resp)
                       => /\ i = Len(c.reqs)
                          /\ c.state = "raised"
                          /\ c.result = Absent
                          /\ c.exc = IF c.reqs[i].resp.kind = "error"
                                     THEN "TransportError" ELSE "HTTPStatusError"

\* a download met a transport failure after its only request and raised it
C24_Witness ==
    /\ call["main"].op = "download_object"
    /\ Len(call["main"].reqs) = 1
    /\ call["main"].reqs[1].resp = TransportError
    /\ call["main"].state = "raised"
    /\ call["main"].exc = "TransportError"

\* the operations that take a typed components argument
ComponentOperations == {"create_entity", "update_entity", "create_task", "update_task"}

\* call c is one of these operations, given an EntityComponents or TaskComponents
\* instance, and has sent its request
SentTyped(c) ==
    /\ c.op \in ComponentOperations
    /\ c.args.v.components.t = "model"
    /\ c.args.v.components.cls \in {"EntityComponents", "TaskComponents"}
    /\ Len(c.reqs) = 1

\* the mapping d holds exactly the keys of obj that are set, also inside the
\* instances obj holds, and each set value as constructed: every value when
\* `always` holds, otherwise every value with no None-valued mapping entry
RECURSIVE SetFieldsOnly(_, _, _)
SetFieldsOnly(obj, d, always) ==
    /\ d.t = "dict"
    /\ DOMAIN d.v = {k \in KeysOf(obj) : Getattr(obj, k).t # "None"}
    /\ \A k \in DOMAIN d.v :
           LET x == Getattr(obj, k)
           IN  IF x.t = "model" THEN SetFieldsOnly(x, d.v[k], always)
               ELSE (always \/ NoNoneValue(x)) => d.v[k] = x

\* C25 as claimed: every set field appears with exactly the constructed value.
C25_Original ==
    \A t \in Tasks :
        SentTyped(call[t])
            => LET body == call[t].reqs[1].json
               IN  /\ "components" \in DOMAIN body.v
                   /\ SetFieldsOnly(call[t].args.v.components, body.v["components"], TRUE)

\* C25, amended: for create_entity, update_entity, create_task and update_task
\* called with a typed components instance, the components value of the request
\* body is the omit-unset serialization of the instance: no key appears for a
\* field left unset, and every set field appears, with exactly the constructed
\* value when that value holds no None-valued mapping entry at any depth.
C25_TypedComponentsBody ==
    \A t \in Tasks :
        SentTyped(call[t])
            => LET body == call[t].reqs[1].json
               IN  /\ "components" \in DOMAIN body.v
                   /\ SetFieldsOnly(call[t].args.v.components, body.v["components"], FALSE)
                   /\ NoNoneValue(body.v["components"])
                   /\ PlainData(body.v["components"])

\* create_entity sent telemetry with latitude as constructed and no altitude_m
C25_Witness ==
    /\ SentTyped(call["main"])
    /\ call["main"].op = "create_entity"
    /\ call["main"].args.v.components = TypedEntityComponents
    /\ call["main"].reqs[1].json.v["components"].v["telemetry"].v["latitude"] = PyFloat(41)
    /\ "altitude_m" \notin DOMAIN call["main"].reqs[1].json.v["components"].v["telemetry"].v

\* the mapping d holds exactly the keys of `always` and those of `optional` whose
\* argument in a is not None, each with the argument's value
CarriesProvided(d, a, always, optional) ==
    /\ d.t = "dict"
    /\ DOMAIN d.v = always \cup {k \in optional : a[k].t # "None"}
    /\ \A k \in DOMAIN d.v : d.v[k] = a[k]

\* C26: checkin_entity always sends status_filter and limit as query parameters,
\* sends since and fields iff they were provided, and its JSON body holds exactly
\* those of latitude, longitude, altitude_m, speed_m_s, heading_deg and status
\* that were provided, each with the value given.
C26_CheckinParamsAndBody ==
    \A t \in Tasks :
        (call[t].op = "checkin_entity" /\ Len(call[t].reqs) = 1)
            => LET r == call[t].reqs[1]
                   a == call[t].args.v
               IN  /\ r.method = "POST"
                   /\ r.path = <<"entities", Fmt(a.entity_id), "checkin">>
                   /\ CarriesProvided(r.params, a, {"status_filter", "limit"}, {"since", "fields"})
                   /\ CarriesProvided(r.json, a, {},
                                      {"latitude", "longitude", "altitude_m", "speed_m_s",
                                       "heading_deg", "status"})

\* a check-in given latitude 0.0, status "" and since "" but no fields: the
\* falsy values are sent, fields is not
C26_Witness ==
    /\ call["main"].op = "checkin_entity"
    /\ Len(call["main"].reqs) = 1
    /\ call["main"].args.v.latitude = PyFloat(0)
    /\ call["main"].args.v.status = PyStr("")
    /\ DOMAIN call["main"].reqs[1].params.v = {"status_filter", "limit", "since"}
    /\ call["main"].reqs[1].json.v["latitude"] = PyFloat(0)
    /\ call["main"].reqs[1].json.v["status"] = PyStr("")

\* an operation got the connection from self._http although an aclose had
\* begun: httpx, already closed, refused the request
ObtainedClosingConnection(c) == c.op \notin {"", "aclose"} /\ c.exc = "HttpxClosed"

\* C27: closing is idempotent under every interleaving: however many aclose
\* calls are made on one client, one after the other or by several tasks at
\* once, the connection's close is invoked at most once, and no operation that
\* starts after an aclose has begun obtains the connection.
C27_ClosingIsIdempotent ==
    /\ close_calls <= 1
    /\ \A t \in Tasks : ~ObtainedClosingConnection(call[t])

\* C28: every add-reference request of a create_object call targets the
\* object_id of the upload response, the stored record, and not the object_id
\* argument of the call; when the two differ, all of them use the response's.
C28_ReferencesTargetStoredObjectId ==
    \A t \in Tasks :
        LET c == call[t]
        IN  c.op = "create_object"
            => \A i \in 2..Len(c.reqs) :
                   /\ IsAddReference(c.reqs[i])
                   /\ Succeeded(c.reqs[1].resp)
                   /\ c.reqs[1].resp.content.t = "dict"
                   /\ "object_id" \in DOMAIN c.reqs[1].resp.content.v
                   /\ c.reqs[i].path[2] = Fmt(c.reqs[1].resp.content.v["object_id"])

\* an upload of obj-123 answered with obj-999, and two references attached to
\* obj-999
C28_Witness ==
    /\ call["main"].op = "create_object"
    /\ call["main"].args.v.object_id = PyStr("obj-123")
    /\ Len(call["main"].reqs) = 3
    /\ call["main"].reqs[1].resp.content.v["object_id"] = PyStr("obj-999")
    /\ call["main"].reqs[2].path[2] = "obj-999"
    /\ call["main"].reqs[3].path[2] = "obj-999"

\* C29: a create_object call sends no add-reference request before the answer
\* to its upload has been received, and when the upload fails, by a transport
\* error or a status outside 2xx, the call raises that failure and sends no
\* add-reference request, whatever the referenced_by list.
C29_NoReferenceBeforeOrWithoutUpload ==
    \A t \in Tasks :
        LET c == call[t]
        IN  (c.op = "create_object" /\ Len(c.reqs) >= 1)
            => /\ IsUpload(c.reqs[1])
               /\ Len(c.reqs) >= 2 => Succeeded(c.reqs[1].resp)
               /\ c.reqs[1].resp = Pending => Len(c.reqs) = 1
               /\ Failed(c.reqs[1].resp)
                  => /\ Len(c.reqs) = 1
                     /\ pc[t] \notin {"upload", "reference"}
                     /\ c.state = "raised"
                     /\ c.exc = IF c.reqs[1].resp.kind = "error"
                                THEN "TransportError" ELSE "HTTPStatusError"

\* an upload with three references to attach was answered 500: the call raised
\* after its only request
C29_Witness ==
    /\ call["main"].op = "create_object"
    /\ RefCount(call["main"]) = 3
    /\ Len(call["main"].reqs) = 1
    /\ call["main"].reqs[1].resp = Response(500, Absent)
    /\ call["main"].state = "raised"
    /\ call["main"].exc = "HTTPStatusError"

\* the client holds its connection and no aclose has begun
Open == client = "AsyncClient" /\ httpx_state = "OPENED"

\* the errors an operation raises before it touches the connection
LocalErrors == {"ValueError", "TypeError"}

\* task t is inside aclose or __aexit__ before or after the step
ClosingStep == \E t \in Tasks : pc[t] \in {"closing", "exiting"} \/ pc'[t] \in {"closing", "exiting"}

\* C30: a failed operation leaves the lifecycle of the client as it was: the
\* step in which an operation fails (a local validation error, the workflow
\* integrity error of create_object, a status outside 2xx) changes neither the
\* connection nor base_url nor token; on an open client an operation that
\* passes its local validation sends its request, also after a failure; and
\* only aclose and leaving the `async with` block close the client.
C30_FailureLeavesLifecycleUnchanged ==
    [][/\ base_url' = base_url
       /\ token' = token
       /\ (client' # client \/ httpx_state' # httpx_state \/ close_calls' # close_calls)
              => ClosingStep
       /\ \A t \in Tasks :
              /\ (call'[t] # call[t] /\ call'[t].state = "raised")
                     => /\ client' = client
                        /\ httpx_state' = httpx_state
                        /\ close_calls' = close_calls
              /\ (Open /\ call[t].state = "none" /\ call'[t].op \notin {"", "aclose"})
                     => \/ /\ call'[t].state = "raised"
                           /\ call'[t].exc \in LocalErrors
                           /\ call'[t].reqs = <<>>
                        \/ /\ call'[t].state = "running"
                           /\ Len(call'[t].reqs) = 1
                           /\ call'[t].reqs[1].resp = Pending]_vars

\* create_object failed on an upload answer without object_id, and the client
\* is open with its connection
C30_Witness ==
    /\ call["main"].op = "create_object"
    /\ call["main"].state = "raised"
    /\ call["main"].exc = "WorkflowIntegrity"
    /\ Open
    /\ close_calls = 0

====
